---------------------------- MODULE Spec2Model ----------------------------
(***************************************************************************)
(* Loan application service: the eligibility evaluator                     *)
(* (EligibilityService), the address grade resolver with its cache         *)
(* (CrimeAgentService), and the two routes POST /loan and GET /loan/:id    *)
(* with their middleware, controller, service and repository.              *)
(*                                                                         *)
(* A JavaScript string is a sequence of one-character strings.  A number   *)
(* is a rational [n, d] with d > 0; the arithmetic of the evaluator is     *)
(* exact on the inputs drawn here (every threshold is a dyadic rational,   *)
(* so the double arithmetic of the code computes it without rounding).     *)
(***************************************************************************)
EXTENDS Integers, Sequences, FiniteSets, TLC

VARIABLES
    gradeCache,     \* CrimeAgentService.gradeCache: normalized address -> [grade, timestamp]
    now,            \* Date.now(), in milliseconds
    calls,          \* the getCrimeGrade invocations: where each stands and what it holds
    resolved,       \* history: the keys resolved by returned calls since the last clearCache
    ticks,          \* history: how many times the clock advanced
    evalApp,        \* the application handed to evaluateEligibility
    evalGrade,      \* the crime grade handed to evaluateEligibility
    evalResult,     \* the EligibilityResult it returned
    rawAddress,     \* the address handed to the classification path
    classified,     \* [key, grade]: its normalized form and simulateCrimeGrade of it
    addressPair,    \* two addresses handed to normalizeAddress
    keyPair,        \* their normalized forms
    loans,          \* the rows of the loans table, by primary key id
    requests,       \* the HTTP requests: where each stands and what it holds
    validApiKey,    \* AuthMiddleware.validApiKey
    authCalls,      \* history: the calls of authenticate and updateApiKey on the middleware alone
    updateCalls,    \* the updateLoanApplication calls: where each stands and what it holds
    connection      \* database/connection.ts: db, the file, and the callers of getDatabase

vars == <<gradeCache, now, calls, resolved, ticks, evalApp, evalGrade, evalResult,
          rawAddress, classified, addressPair, keyPair, loans, requests, validApiKey,
          authCalls, updateCalls, connection>>

resolverVars == <<gradeCache, now, calls, resolved, ticks>>
evalVars == <<evalApp, evalGrade, evalResult>>
classifyVars == <<rawAddress, classified>>
pairVars == <<addressPair, keyPair>>
loanVars == <<loans, requests, validApiKey>>
serviceVars == <<authCalls, updateCalls, connection>>

-----------------------------------------------------------------------------
(* Characters *)

LowerLetters == <<"a","b","c","d","e","f","g","h","i","j","k","l","m","n","o","p","q","r","s","t","u","v","w","x","y","z">>
UpperLetters == <<"A","B","C","D","E","F","G","H","I","J","K","L","M","N","O","P","Q","R","S","T","U","V","W","X","Y","Z">>
Digits == <<"0","1","2","3","4","5","6","7","8","9">>

Range(s) == {s[i] : i \in 1..Len(s)}
IndexOf(s, c) == CHOOSE i \in 1..Len(s) : s[i] = c
LowerSet == Range(LowerLetters)
UpperSet == Range(UpperLetters)
DigitSet == Range(Digits)
WordSet == LowerSet \cup UpperSet \cup DigitSet \cup {"_"}

\* \s of a regular expression, and what String.prototype.trim removes
IsSpace(c) == c \in {" ", "\t"}
\* \w of a regular expression: [A-Za-z0-9_]
IsWord(c) == c \in WordSet

\* String.prototype.charCodeAt, for one character
charCodeAt(c) ==
    IF c \in LowerSet THEN 96 + IndexOf(LowerLetters, c)
    ELSE IF c \in UpperSet THEN 64 + IndexOf(UpperLetters, c)
    ELSE IF c \in DigitSet THEN 47 + IndexOf(Digits, c)
    ELSE IF c = " " THEN 32
    ELSE IF c = "\t" THEN 9
    ELSE IF c = "_" THEN 95
    ELSE IF c = "," THEN 44
    ELSE 46  \* "."

toLowerCaseChar(c) ==
    IF c \in UpperSet THEN LowerLetters[IndexOf(UpperLetters, c)] ELSE c
toUpperCaseChar(c) ==
    IF c \in LowerSet THEN UpperLetters[IndexOf(LowerLetters, c)] ELSE c

\* String.prototype.toLowerCase / toUpperCase
toLowerCase(s) == [i \in 1..Len(s) |-> toLowerCaseChar(s[i])]
toUpperCase(s) == [i \in 1..Len(s) |-> toUpperCaseChar(s[i])]

\* String.prototype.includes
includes(s, sub) ==
    \E i \in 0..(Len(s) - Len(sub)) : SubSeq(s, i + 1, i + Len(sub)) = sub

RECURSIVE trimStart(_)
trimStart(s) ==
    IF s # <<>> /\ IsSpace(Head(s)) THEN trimStart(Tail(s)) ELSE s
RECURSIVE trimEnd(_)
trimEnd(s) ==
    IF s # <<>> /\ IsSpace(s[Len(s)]) THEN trimEnd(SubSeq(s, 1, Len(s) - 1)) ELSE s
\* String.prototype.trim
trim(s) == trimEnd(trimStart(s))

\* .replace(/\s+/g, ' '): every maximal run of whitespace becomes one space
RECURSIVE replaceWhitespaceRuns(_)
replaceWhitespaceRuns(s) ==
    IF s = <<>> THEN <<>>
    ELSE IF IsSpace(Head(s)) THEN <<" ">> \o replaceWhitespaceRuns(trimStart(s))
    ELSE <<Head(s)>> \o replaceWhitespaceRuns(Tail(s))

KeepWordOrSpace(c) == IsWord(c) \/ IsSpace(c)
\* .replace(/[^\w\s]/g, ''): every character that is neither \w nor \s is removed
removeSpecialCharacters(s) == SelectSeq(s, KeepWordOrSpace)

-----------------------------------------------------------------------------
(* CrimeAgentService: constants and pure helpers *)

\* One-letter grade strings
validGrades == {<<"A">>, <<"B">>, <<"C">>, <<"D">>, <<"E">>, <<"F">>}
DEFAULT_GRADE == <<"C">>
\* 24 * 60 * 60 * 1000
CACHE_TTL == 86400000
REQUEST_TIMEOUT == 10000

normalizeAddress(address) ==
    removeSpecialCharacters(replaceWhitespaceRuns(toLowerCase(trim(address))))

\* The string literals of simulateCrimeGrade
KW ==
    [east_palo_alto |-> <<"e","a","s","t"," ","p","a","l","o"," ","a","l","t","o">>,
     oakland_downtown |-> <<"o","a","k","l","a","n","d"," ","d","o","w","n","t","o","w","n">>,
     tenderloin |-> <<"t","e","n","d","e","r","l","o","i","n">>,
     industrial |-> <<"i","n","d","u","s","t","r","i","a","l">>,
     warehouse |-> <<"w","a","r","e","h","o","u","s","e">>,
     sunnyvale |-> <<"s","u","n","n","y","v","a","l","e">>,
     palo_alto |-> <<"p","a","l","o"," ","a","l","t","o">>,
     cupertino |-> <<"c","u","p","e","r","t","i","n","o">>,
     hills |-> <<"h","i","l","l","s">>,
     park |-> <<"p","a","r","k">>,
     garden |-> <<"g","a","r","d","e","n">>,
     san_jose |-> <<"s","a","n"," ","j","o","s","e">>,
     fremont |-> <<"f","r","e","m","o","n","t">>,
     mountain_view |-> <<"m","o","u","n","t","a","i","n"," ","v","i","e","w">>,
     downtown |-> <<"d","o","w","n","t","o","w","n">>,
     central |-> <<"c","e","n","t","r","a","l">>,
     san_francisco |-> <<"s","a","n"," ","f","r","a","n","c","i","s","c","o">>]

\* 32-bit integer arithmetic of simpleHash, on 16-bit halves so that no
\* intermediate value leaves the range of a 32-bit integer
Hi16(x) == x \div 65536
Lo16(x) == x % 65536
ToInt32(hi, lo) == (((hi + 32768) % 65536) - 32768) * 65536 + lo
\* hash << 5: the low 27 bits of hash move up, the result is a 32-bit integer
ShiftLeft5(hash) ==
    LET m == hash % 134217728
    IN  IF m >= 67108864 THEN (m - 134217728) * 32 ELSE m * 32
\* hash = ((hash << 5) - hash) + char; hash = hash & hash
hashStep(hash, char) ==
    LET shifted == ShiftLeft5(hash)
        lo == Lo16(shifted) - Lo16(hash) + char
        hi == Hi16(shifted) - Hi16(hash) + (lo \div 65536)
    IN  ToInt32(hi, lo % 65536)
RECURSIVE hashLoop(_, _, _)
hashLoop(str, i, hash) ==
    IF i > Len(str) THEN hash
    ELSE \* (next is bound as the element of a set, so that it is computed once)
         CHOOSE result \in {hashLoop(str, i + 1, next) :
                                next \in {hashStep(hash, charCodeAt(str[i]))}} : TRUE
MathAbs_Signed(hash) == [hi |-> Hi16(hash), lo |-> Lo16(hash)]

\* Math.abs of a 32-bit integer is a double: up to 2^31, kept as [hi, lo] with
\* value hi * 65536 + lo
MathAbs(hash) ==
    IF hash >= 0 THEN [hi |-> Hi16(hash), lo |-> Lo16(hash)]
    ELSE LET m == -(hash + 1)
             lo == Lo16(m) + 1
         IN  [hi |-> Hi16(m) + (lo \div 65536), lo |-> lo % 65536]
simpleHash(str) == MathAbs(hashLoop(str, 1, 0))
\* number % n for a non-negative number [hi, lo]
Remainder(number, n) == ((number.hi % n) * (65536 % n) + number.lo) % n

simulateCrimeGrade_LowRiskFirst(normalizedAddress) ==
    LET addressLower == toLowerCase(normalizedAddress)
        grades == << <<"B">>, <<"C">>, <<"D">>, <<"E">> >>
    IN  IF \/ includes(addressLower, KW.sunnyvale)
           \/ (includes(addressLower, KW.palo_alto)
               /\ ~includes(addressLower, KW.east_palo_alto))
           \/ includes(addressLower, KW.cupertino)
           \/ includes(addressLower, KW.hills)
           \/ includes(addressLower, KW.park)
           \/ includes(addressLower, KW.garden)
        THEN <<"A">>
        ELSE IF \/ includes(addressLower, KW.east_palo_alto)
                \/ includes(addressLower, KW.oakland_downtown)
                \/ includes(addressLower, KW.tenderloin)
                \/ includes(addressLower, KW.industrial)
                \/ includes(addressLower, KW.warehouse)
        THEN <<"F">>
        ELSE IF \/ includes(addressLower, KW.san_jose)
                \/ includes(addressLower, KW.fremont)
                \/ includes(addressLower, KW.mountain_view)
        THEN <<"B">>
        ELSE IF \/ includes(addressLower, KW.downtown)
                \/ includes(addressLower, KW.central)
                \/ includes(addressLower, KW.san_francisco)
        THEN <<"D">>
        ELSE grades[Remainder(simpleHash(normalizedAddress), Len(grades)) + 1]

simulateCrimeGrade(normalizedAddress) ==
    LET addressLower == toLowerCase(normalizedAddress)
        grades == << <<"B">>, <<"C">>, <<"D">>, <<"E">> >>
    IN  IF \/ includes(addressLower, KW.east_palo_alto)
           \/ includes(addressLower, KW.oakland_downtown)
           \/ includes(addressLower, KW.tenderloin)
           \/ includes(addressLower, KW.industrial)
           \/ includes(addressLower, KW.warehouse)
        THEN <<"F">>
        ELSE IF \/ includes(addressLower, KW.sunnyvale)
                \/ (includes(addressLower, KW.palo_alto)
                    /\ ~includes(addressLower, KW.east_palo_alto))
                \/ includes(addressLower, KW.cupertino)
                \/ includes(addressLower, KW.hills)
                \/ includes(addressLower, KW.park)
                \/ includes(addressLower, KW.garden)
        THEN <<"A">>
        ELSE IF \/ includes(addressLower, KW.san_jose)
                \/ includes(addressLower, KW.fremont)
                \/ includes(addressLower, KW.mountain_view)
        THEN <<"B">>
        ELSE IF \/ includes(addressLower, KW.downtown)
                \/ includes(addressLower, KW.central)
                \/ includes(addressLower, KW.san_francisco)
        THEN <<"D">>
        ELSE grades[Remainder(simpleHash(normalizedAddress), Len(grades)) + 1]

\* What an expression that throws evaluates to
Thrown == <<"throw">>

\* A value of a response: [type, value], the value of a string being its
\* characters and the value of a number its digits
IsTruthy(v) ==
    \/ v.type = "string" /\ v.value # <<>>
    \/ v.type = "number" /\ v.value # <<"0">>

validateGrade_Unchecked(grade) ==
    IF grade.type # "string" THEN Thrown ELSE toUpperCase(grade.value)

\* grade.toUpperCase() throws a TypeError when grade is not a string
validateGrade(grade) ==
    IF grade.type # "string" THEN Thrown
    ELSE LET upperGrade == toUpperCase(grade.value)
         IN  IF upperGrade \in validGrades THEN upperGrade ELSE DEFAULT_GRADE

getFallbackGrade(address) == DEFAULT_GRADE

-----------------------------------------------------------------------------
(* EligibilityService *)

\* Numbers: exact rationals [n, d], d > 0
Num(n) == [n |-> n, d |-> 1]
Half(n) == [n |-> n, d |-> 2]
\* a / b for b > 0 (request validation admits only loanTermMonths > 0)
Divide(a, b) == [n |-> a.n * b.d, d |-> a.d * b.n]
Multiply(a, b) == [n |-> a.n * b.n, d |-> a.d * b.d]
GreaterThan(a, b) == a.n * b.d > b.n * a.d
GreaterOrEqual(a, b) == a.n * b.d >= b.n * a.d

MIN_CREDIT_SCORE == 700
\* 1.5
INCOME_MULTIPLIER == [n |-> 3, d |-> 2]
FAILING_CRIME_GRADE == <<"F">>

validateCreditScore_Above(creditScore) ==
    GreaterThan(creditScore, Num(MIN_CREDIT_SCORE))

validateCreditScore(creditScore) ==
    GreaterOrEqual(creditScore, Num(MIN_CREDIT_SCORE))

validateIncome_OrEqual(monthlyIncome, requestedAmount, loanTermMonths) ==
    LET monthlyPayment == Divide(requestedAmount, loanTermMonths)
        requiredIncome == Multiply(monthlyPayment, INCOME_MULTIPLIER)
    IN  GreaterOrEqual(monthlyIncome, requiredIncome)

validateIncome(monthlyIncome, requestedAmount, loanTermMonths) ==
    LET monthlyPayment == Divide(requestedAmount, loanTermMonths)
        requiredIncome == Multiply(monthlyPayment, INCOME_MULTIPLIER)
    IN  GreaterThan(monthlyIncome, requiredIncome)

validateCrimeGrade_FromE(crimeGrade) == crimeGrade \notin {<<"E">>, FAILING_CRIME_GRADE}

validateCrimeGrade(crimeGrade) == crimeGrade # FAILING_CRIME_GRADE

\* Array.prototype.join: a string built of pieces is the sequence of its pieces
RECURSIVE join(_, _)
join(list, separator) ==
    IF list = <<>> THEN <<>>
    ELSE IF Len(list) = 1 THEN <<list[1]>>
    ELSE <<list[1], separator>> \o join(Tail(list), separator)

generateReason_IncomeFirst(checks, eligible) ==
    IF eligible THEN <<"Passed all checks">>
    ELSE LET failedChecks ==
                 (IF ~checks.income THEN <<"Monthly income too low">> ELSE <<>>)
                 \o (IF ~checks.creditScore THEN <<"Credit score too low">> ELSE <<>>)
                 \o (IF ~checks.crimeGrade
                     THEN <<"Property location has high crime rate">> ELSE <<>>)
         IN  join(failedChecks, ", ")

generateReason(checks, eligible) ==
    IF eligible THEN <<"Passed all checks">>
    ELSE LET failedChecks ==
                 (IF ~checks.creditScore THEN <<"Credit score too low">> ELSE <<>>)
                 \o (IF ~checks.income THEN <<"Monthly income too low">> ELSE <<>>)
                 \o (IF ~checks.crimeGrade
                     THEN <<"Property location has high crime rate">> ELSE <<>>)
         IN  join(failedChecks, ", ")

evaluateEligibility_ShortCircuit(application, crimeGrade) ==
    LET credit == validateCreditScore(application.creditScore)
        checks == [creditScore |-> credit,
                   income |-> credit /\ validateIncome(application.monthlyIncome,
                                                       application.requestedAmount,
                                                       application.loanTermMonths),
                   crimeGrade |-> validateCrimeGrade(crimeGrade)]
        eligible == checks.creditScore /\ checks.income /\ checks.crimeGrade
        reason == generateReason(checks, eligible)
    IN  [eligible |-> eligible, reason |-> reason, checks |-> checks]

evaluateEligibility(application, crimeGrade) ==
    LET checks == [creditScore |-> validateCreditScore(application.creditScore),
                   income |-> validateIncome(application.monthlyIncome,
                                             application.requestedAmount,
                                             application.loanTermMonths),
                   crimeGrade |-> validateCrimeGrade(crimeGrade)]
        eligible == checks.creditScore /\ checks.income /\ checks.crimeGrade
        reason == generateReason(checks, eligible)
    IN  [eligible |-> eligible, reason |-> reason, checks |-> checks]

-----------------------------------------------------------------------------
(* CrimeAgentService: the cache and getCrimeGrade *)

\* Bounds of the model
MaxCalls == 2
MaxTicks == 1

Calls == 1..MaxCalls

\* The addresses callers pass
Addr_OakSt == <<"O","a","k"," ","S","t">>
Addr_OakSt_Spaced == <<" "," ","O","A","K"," ","\t"," ","s","t","."," ">>
Addr_Oak_Comma_St == <<"O","a","k"," ",","," ","S","t">>
Addr_EastPaloAlto == <<"E","a","s","t"," ","P","a","l","o"," ","A","l","t","o">>
Addresses == {Addr_OakSt, Addr_OakSt_Spaced, Addr_Oak_Comma_St, Addr_EastPaloAlto}

\* What axios.get can settle with: a rejection (network error, timeout), or a
\* response whose data is null or carries a grade (a string or not)
Undefined == [type |-> "undefined", value |-> <<>>]
Responses ==
    { [status |-> "rejected", data |-> "ECONNREFUSED", grade |-> Undefined],
      [status |-> "rejected", data |-> "ETIMEDOUT", grade |-> Undefined],
      [status |-> "fulfilled", data |-> "null", grade |-> Undefined],
      [status |-> "fulfilled", data |-> "object",
       grade |-> [type |-> "string", value |-> <<"b">>]],
      [status |-> "fulfilled", data |-> "object",
       grade |-> [type |-> "string", value |-> <<"X">>]],
      [status |-> "fulfilled", data |-> "object",
       grade |-> [type |-> "number", value |-> <<"5">>]] }

\* What axios.get settles with when REQUEST_TIMEOUT has passed without an answer
TimedOut == [status |-> "rejected", data |-> "ETIMEDOUT", grade |-> Undefined]

\* How far the clock may advance in one step
TickSteps == {CACHE_TTL - 1, CACHE_TTL}

EmptyCache == [k \in {} |-> [grade |-> <<>>, timestamp |-> 0]]
Null == <<>>

\* Map.prototype.delete / Map.prototype.set
MapDelete(map, key) == [k \in DOMAIN map \ {key} |-> map[k]]
MapSet(map, key, value) ==
    [k \in DOMAIN map \cup {key} |-> IF k = key THEN value ELSE map[k]]

\* getCachedGrade: the grade it returns (Null for none) and the cache it leaves
getCachedGrade_Sliding(cache, time, normalizedAddress) ==
    IF normalizedAddress \in DOMAIN cache
    THEN IF time - cache[normalizedAddress].timestamp < CACHE_TTL
         THEN [result |-> cache[normalizedAddress].grade,
               gradeCache |-> MapSet(cache, normalizedAddress,
                                     [grade |-> cache[normalizedAddress].grade,
                                      timestamp |-> time])]
         ELSE [result |-> Null, gradeCache |-> MapDelete(cache, normalizedAddress)]
    ELSE [result |-> Null, gradeCache |-> cache]

getCachedGrade_Evicting(cache, time, normalizedAddress) ==
    IF normalizedAddress \in DOMAIN cache
    THEN [result |-> IF time - cache[normalizedAddress].timestamp < CACHE_TTL
                     THEN cache[normalizedAddress].grade ELSE Null,
          gradeCache |-> MapDelete(cache, normalizedAddress)]
    ELSE [result |-> Null, gradeCache |-> cache]

getCachedGrade_InclusiveTTL(cache, time, normalizedAddress) ==
    IF normalizedAddress \in DOMAIN cache
    THEN IF time - cache[normalizedAddress].timestamp <= CACHE_TTL
         THEN [result |-> cache[normalizedAddress].grade, gradeCache |-> cache]
         ELSE [result |-> Null, gradeCache |-> MapDelete(cache, normalizedAddress)]
    ELSE [result |-> Null, gradeCache |-> cache]

getCachedGrade(cache, time, normalizedAddress) ==
    IF normalizedAddress \in DOMAIN cache
    THEN IF time - cache[normalizedAddress].timestamp < CACHE_TTL
         THEN [result |-> cache[normalizedAddress].grade, gradeCache |-> cache]
         ELSE [result |-> Null, gradeCache |-> MapDelete(cache, normalizedAddress)]
    ELSE [result |-> Null, gradeCache |-> cache]

setCachedGrade_Replacing(cache, time, normalizedAddress, grade) ==
    MapSet(EmptyCache, normalizedAddress, [grade |-> grade, timestamp |-> time])

setCachedGrade(cache, time, normalizedAddress, grade) ==
    MapSet(cache, normalizedAddress, [grade |-> grade, timestamp |-> time])

\* The try block of fetchCrimeGradeFromAPI once axios.get has settled with
\* response: the validated grade, or Thrown (the rejection of the request,
\* the TypeError of validateGrade, 'Invalid response format')
fetchAttempt(response) ==
    IF response.status = "rejected" THEN Thrown
    ELSE IF response.data # "null" /\ IsTruthy(response.grade)
         THEN validateGrade(response.grade)
         ELSE Thrown

\* Whether the grade is taken from the response rather than simulated
UsesResponse(response) == fetchAttempt(response) # Thrown

fetchCrimeGradeFromAPI_Rethrow(normalizedAddress, response) == fetchAttempt(response)

\* fetchCrimeGradeFromAPI once axios.get has settled with response: the
\* catch block simulates the grade
fetchCrimeGradeFromAPI(normalizedAddress, response) ==
    LET attempt == fetchAttempt(response)
    IN  IF attempt # Thrown THEN attempt
        ELSE simulateCrimeGrade(normalizedAddress)

getCacheSize == Cardinality(DOMAIN gradeCache)

\* A getCrimeGrade invocation: where it stands, its normalizedAddress, the
\* grade it returned and the path that produced it ("cache", "api" for a grade
\* taken from the response, "simulated" for the catch block of
\* fetchCrimeGradeFromAPI, "fallback" for the catch block of getCrimeGrade);
\* found is history: what gradeCache.get gave getCachedGrade ("absent",
\* "fresh" or "expired")
ReadyCall == [pc |-> "ready", normalizedAddress |-> <<>>, source |-> "none",
              result |-> <<>>, found |-> "none"]

\* What getCachedGrade finds under the key
Found(cache, time, normalizedAddress) ==
    IF normalizedAddress \notin DOMAIN cache THEN "absent"
    ELSE IF time - cache[normalizedAddress].timestamp < CACHE_TTL THEN "fresh"
    ELSE "expired"

InitResolver ==
    /\ gradeCache = EmptyCache
    /\ now = 0
    /\ calls = [i \in Calls |-> ReadyCall]
    /\ resolved = {}
    /\ ticks = 0

\* getCrimeGrade(address) up to its await: a cache hit returns, a miss sends
\* the request
getCrimeGrade(i, address) ==
    /\ calls[i].pc = "ready"
    /\ \A j \in Calls : j < i => calls[j].pc # "ready"
    /\ LET normalizedAddress == normalizeAddress(address)
           cached == getCachedGrade(gradeCache, now, normalizedAddress)
       IN  /\ gradeCache' = cached.gradeCache
           /\ IF cached.result # Null
              THEN /\ calls' = [calls EXCEPT ![i] =
                          [pc |-> "returned",
                           normalizedAddress |-> normalizedAddress,
                           source |-> "cache", result |-> cached.result,
                           found |-> Found(gradeCache, now, normalizedAddress)]]
                   /\ resolved' = resolved \cup {normalizedAddress}
              ELSE /\ calls' = [calls EXCEPT ![i] =
                          [pc |-> "awaiting",
                           normalizedAddress |-> normalizedAddress,
                           source |-> "none", result |-> <<>>,
                           found |-> Found(gradeCache, now, normalizedAddress)]]
                   /\ resolved' = resolved
    /\ UNCHANGED <<now, ticks, evalVars, classifyVars, pairVars, loanVars, serviceVars>>

\* The rest of getCrimeGrade, run when the request settles: the grade is
\* computed, cached and returned; were fetchCrimeGradeFromAPI to throw, the
\* catch block would return the fallback grade and cache nothing (it never
\* does: its own catch block throws nothing)
getCrimeGradeResume(i, response) ==
    /\ calls[i].pc = "awaiting"
    /\ LET grade == fetchCrimeGradeFromAPI(calls[i].normalizedAddress, response)
       IN  IF grade # Thrown
           THEN /\ gradeCache' = setCachedGrade(gradeCache, now,
                                                calls[i].normalizedAddress, grade)
                /\ calls' = [calls EXCEPT ![i].pc = "returned",
                                          ![i].source = IF UsesResponse(response)
                                                        THEN "api" ELSE "simulated",
                                          ![i].result = grade]
           ELSE /\ gradeCache' = gradeCache
                /\ calls' = [calls EXCEPT ![i].pc = "returned",
                                          ![i].source = "fallback",
                                          ![i].result =
                                              getFallbackGrade(calls[i].normalizedAddress)]
    /\ resolved' = resolved \cup {calls[i].normalizedAddress}
    /\ UNCHANGED <<now, ticks, evalVars, classifyVars, pairVars, loanVars, serviceVars>>

clearCache ==
    /\ gradeCache' = EmptyCache
    /\ resolved' = {}
    /\ UNCHANGED <<now, calls, ticks, evalVars, classifyVars, pairVars, loanVars, serviceVars>>

\* Time passes
Tick(step) ==
    /\ ticks < MaxTicks
    /\ now' = now + step
    /\ ticks' = ticks + 1
    /\ UNCHANGED <<gradeCache, calls, resolved, evalVars, classifyVars, pairVars, loanVars, serviceVars>>

-----------------------------------------------------------------------------
(* The inputs of the pure functions *)

\* Values no call returns: nothing has been returned yet
NoResult == [eligible |-> FALSE, reason |-> <<"(none)">>,
             checks |-> [creditScore |-> FALSE, income |-> FALSE, crimeGrade |-> FALSE]]
NoApplication == [applicantName |-> <<>>, propertyAddress |-> <<>>,
                  creditScore |-> Num(0), monthlyIncome |-> Num(0),
                  requestedAmount |-> Num(0), loanTermMonths |-> Num(1)]
NotClassified == [key |-> <<"?">>, grade |-> <<"?">>]
NotNormalized == << <<"?">>, <<"?">> >>

\* Addresses put together from pieces of text, for the classification
MaxTokens == 2
Tokens == {<<"E","a","s","t"," ">>,
           <<"P","a","l","o"," ","A","l","t","o">>,
           <<" ","S","u","n","n","y","v","a","l","e">>,
           <<" ","I","n","d","u","s","t","r","i","a","l">>,
           <<" ","H","i","l","l","s">>,
           <<"S","a","n"," ","J","o","s","e">>,
           <<" ","D","o","w","n","t","o","w","n">>,
           <<"O","a","k","l","a","n","d">>,
           <<" ","C","e","n","t","r","a","l">>,
           <<"1","2"," ","O","a","k"," ","S","t">>,
           <<"p","o","l","y","g","e","n","e","l","u","b","r","i","c","a","n","t","s">>,
           <<","," ">>}
RECURSIVE TextsOf(_)
TextsOf(n) ==
    IF n = 0 THEN {<<>>}
    ELSE LET shorter == TextsOf(n - 1)
         IN  shorter \cup {s \o piece : s \in shorter, piece \in Tokens}
ClassifyAddresses == TextsOf(MaxTokens)

\* Every short address over a few characters, for the normalization
MaxAddressLength == 3
PairAlphabet == {"a", "A", " ", ","}
RECURSIVE StringsOf(_)
StringsOf(n) ==
    IF n = 0 THEN {<<>>}
    ELSE LET shorter == StringsOf(n - 1)
         IN  shorter \cup {s \o <<c>> : s \in shorter, c \in PairAlphabet}
ShortAddresses == StringsOf(MaxAddressLength)

CreditScores == {Num(650), Num(699), Half(1399), Num(700), Num(750)}
MonthlyIncomes == {Num(3000), Num(9375), Half(18751), Num(9376), Num(10000), Num(18001)}
\* requestedAmount and loanTermMonths
Loans == {<<Num(150000), Num(24)>>, <<Num(12000), Num(1)>>, <<Num(3125), Half(1)>>}
EligApplications ==
    {[applicantName |-> <<"J">>, propertyAddress |-> Addr_OakSt,
      creditScore |-> c, monthlyIncome |-> m,
      requestedAmount |-> l[1], loanTermMonths |-> l[2]] :
        c \in CreditScores, m \in MonthlyIncomes, l \in Loans}

InitEvalIdle ==
    /\ evalApp = NoApplication
    /\ evalGrade = <<>>
    /\ evalResult = NoResult

InitClassifyIdle ==
    /\ rawAddress = <<>>
    /\ classified = NotClassified

InitPairIdle ==
    /\ addressPair = << <<>>, <<>> >>
    /\ keyPair = NotNormalized

\* The external lookup fails and fetchCrimeGradeFromAPI classifies the
\* normalized rawAddress
Classify(response) ==
    /\ classified = NotClassified
    /\ ~UsesResponse(response)
    /\ LET normalizedAddress == normalizeAddress(rawAddress)
       IN  classified' = [key |-> normalizedAddress,
                          grade |-> fetchCrimeGradeFromAPI(normalizedAddress, response)]
    /\ UNCHANGED <<rawAddress, resolverVars, evalVars, pairVars, loanVars, serviceVars>>

\* normalizeAddress is applied to both addresses of the pair
NormalizePair ==
    /\ keyPair = NotNormalized
    /\ keyPair' = <<normalizeAddress(addressPair[1]), normalizeAddress(addressPair[2])>>
    /\ UNCHANGED <<addressPair, resolverVars, evalVars, classifyVars, loanVars, serviceVars>>

\* evaluateEligibility(evalApp, evalGrade) is called
Evaluate ==
    /\ evalResult = NoResult
    /\ evalResult' = evaluateEligibility(evalApp, evalGrade)
    /\ UNCHANGED <<evalApp, evalGrade, resolverVars, classifyVars, pairVars, loanVars, serviceVars>>

-----------------------------------------------------------------------------
(* AuthMiddleware *)

\* A string value of JavaScript
Str(chars) == [type |-> "string", value |-> chars]

\* 'default-secret-key'
DefaultApiKey == <<"d","e","f","a","u","l","t","-","s","e","c","r","e","t","-","k","e","y">>

\* constructor(apiKey): apiKey || process.env.API_KEY || 'default-secret-key'
AuthMiddleware(apiKey, envApiKey) ==
    IF IsTruthy(apiKey) THEN apiKey.value
    ELSE IF IsTruthy(envApiKey) THEN envApiKey.value
    ELSE DefaultApiKey

\* A response: the status and the object handed to res.json; a message is the
\* sequence of its pieces
NoResponse == [status |-> 0, body |-> <<>>]
ErrorBody(error, message, statusCode) ==
    [error |-> error, message |-> message, statusCode |-> statusCode]
\* new UnauthorizedError(message), as the catch block answers it
UnauthorizedError(message) ==
    [status |-> 401, body |-> ErrorBody("Unauthorized", message, 401)]

ApiKeyRequired ==
    <<"API key is required. Please provide a valid API key in the x-api-key header.">>
InvalidApiKey == <<"Invalid API key. Please provide a valid API key.">>

authenticate_AnyKey(providedApiKey, key) ==
    IF ~IsTruthy(providedApiKey)
    THEN [next |-> FALSE, response |-> UnauthorizedError(ApiKeyRequired)]
    ELSE [next |-> TRUE, response |-> NoResponse]

\* authenticate(req, res, next): whether next is called, and the response
\* sent when it is not
authenticate(providedApiKey, key) ==
    IF ~IsTruthy(providedApiKey)
    THEN [next |-> FALSE, response |-> UnauthorizedError(ApiKeyRequired)]
    ELSE IF providedApiKey.value # key
         THEN [next |-> FALSE, response |-> UnauthorizedError(InvalidApiKey)]
         ELSE [next |-> TRUE, response |-> NoResponse]

-----------------------------------------------------------------------------
(* Request validation *)

LessThan(a, b) == GreaterThan(b, a)
LessOrEqual(a, b) == GreaterOrEqual(b, a)

\* The error messages, in the order of the rules
ValidationErrors ==
    [applicantName |-> "applicantName is required and must be a string",
     propertyAddress |-> "propertyAddress is required and must be a string",
     creditScore |-> "creditScore must be a number between 300 and 850",
     monthlyIncome |-> "monthlyIncome must be a positive number",
     requestedAmount |-> "requestedAmount must be a positive number",
     loanTermMonths |-> "loanTermMonths must be a positive number not exceeding 480 months"]

validateLoanApplicationSafe_FirstError(data) ==
    LET errors ==
            IF ~IsTruthy(data.applicantName) \/ data.applicantName.type # "string"
            THEN <<ValidationErrors.applicantName>>
            ELSE IF ~IsTruthy(data.propertyAddress) \/ data.propertyAddress.type # "string"
            THEN <<ValidationErrors.propertyAddress>>
            ELSE IF \/ data.creditScore.type # "number"
                    \/ LessThan(data.creditScore.value, Num(300))
                    \/ GreaterThan(data.creditScore.value, Num(850))
            THEN <<ValidationErrors.creditScore>>
            ELSE IF \/ data.monthlyIncome.type # "number"
                    \/ LessOrEqual(data.monthlyIncome.value, Num(0))
            THEN <<ValidationErrors.monthlyIncome>>
            ELSE IF \/ data.requestedAmount.type # "number"
                    \/ LessOrEqual(data.requestedAmount.value, Num(0))
            THEN <<ValidationErrors.requestedAmount>>
            ELSE IF \/ data.loanTermMonths.type # "number"
                    \/ LessOrEqual(data.loanTermMonths.value, Num(0))
                    \/ GreaterThan(data.loanTermMonths.value, Num(480))
            THEN <<ValidationErrors.loanTermMonths>>
            ELSE <<>>
    IN  [isValid |-> errors = <<>>, errors |-> errors]

\* validateLoanApplicationSafe(data): data is the parsed JSON body, each field
\* a value [type, value]; the value of a number field is a rational
validateLoanApplicationSafe(data) ==
    LET errors ==
            (IF ~IsTruthy(data.applicantName) \/ data.applicantName.type # "string"
             THEN <<ValidationErrors.applicantName>> ELSE <<>>)
            \o (IF ~IsTruthy(data.propertyAddress) \/ data.propertyAddress.type # "string"
                THEN <<ValidationErrors.propertyAddress>> ELSE <<>>)
            \o (IF \/ data.creditScore.type # "number"
                   \/ LessThan(data.creditScore.value, Num(300))
                   \/ GreaterThan(data.creditScore.value, Num(850))
                THEN <<ValidationErrors.creditScore>> ELSE <<>>)
            \o (IF \/ data.monthlyIncome.type # "number"
                   \/ LessOrEqual(data.monthlyIncome.value, Num(0))
                THEN <<ValidationErrors.monthlyIncome>> ELSE <<>>)
            \o (IF \/ data.requestedAmount.type # "number"
                   \/ LessOrEqual(data.requestedAmount.value, Num(0))
                THEN <<ValidationErrors.requestedAmount>> ELSE <<>>)
            \o (IF \/ data.loanTermMonths.type # "number"
                   \/ LessOrEqual(data.loanTermMonths.value, Num(0))
                   \/ GreaterThan(data.loanTermMonths.value, Num(480))
                THEN <<ValidationErrors.loanTermMonths>> ELSE <<>>)
    IN  [isValid |-> errors = <<>>, errors |-> errors]

-----------------------------------------------------------------------------
(* LoanRepository: the loans table *)

EmptyTable == [id \in {} |-> <<>>]

\* Date.prototype.toISOString: the instant to the millisecond, in its fields
\* (the calendar date is kept as the number of the day)
toISOString(time) ==
    [day |-> time \div 86400000,
     hours |-> (time \div 3600000) % 24,
     minutes |-> (time \div 60000) % 60,
     seconds |-> (time \div 1000) % 60,
     milliseconds |-> time % 1000]

\* new Date(isoString)
NewDate(iso) ==
    [time |-> (((iso.day * 24 + iso.hours) * 60 + iso.minutes) * 60 + iso.seconds) * 1000
              + iso.milliseconds]

\* A number bound to a column of NUMERIC or INTEGER affinity: SQLite keeps
\* its value (no rounding to the declared scale), and returns it as a number
BoundNumber(number) == number

\* The row INSERT INTO loans writes
InsertedRow(loanData, id, isoNow) ==
    [id |-> id,
     applicant_name |-> loanData.applicantName,
     property_address |-> loanData.propertyAddress,
     credit_score |-> BoundNumber(loanData.creditScore),
     monthly_income |-> BoundNumber(loanData.monthlyIncome),
     requested_amount |-> BoundNumber(loanData.requestedAmount),
     loan_term_months |-> BoundNumber(loanData.loanTermMonths),
     eligible |-> IF loanData.eligible THEN 1 ELSE 0,
     reason |-> loanData.reason,
     crime_grade |-> loanData.crimeGrade,
     created_at |-> isoNow,
     updated_at |-> isoNow]

\* id TEXT PRIMARY KEY: the INSERT fails when a row has the id
ViolatesPrimaryKey(table, row) == row.id \in DOMAIN table

RunInsert_OrReplace(table, row) ==
    [rejected |-> FALSE, table |-> MapSet(table, row.id, row)]

\* db.run(INSERT ...): whether it is rejected, and the table it leaves
RunInsert(table, row) ==
    IF ViolatesPrimaryKey(table, row)
    THEN [rejected |-> TRUE, table |-> table]
    ELSE [rejected |-> FALSE, table |-> MapSet(table, row.id, row)]

\* What create returns: { ...loanData, id, createdAt, updatedAt }
CreatedApplication(loanData, id, isoNow) ==
    [id |-> id,
     applicantName |-> loanData.applicantName,
     propertyAddress |-> loanData.propertyAddress,
     creditScore |-> loanData.creditScore,
     monthlyIncome |-> loanData.monthlyIncome,
     requestedAmount |-> loanData.requestedAmount,
     loanTermMonths |-> loanData.loanTermMonths,
     eligible |-> loanData.eligible,
     reason |-> loanData.reason,
     crimeGrade |-> loanData.crimeGrade,
     createdAt |-> NewDate(isoNow),
     updatedAt |-> NewDate(isoNow)]

mapDatabaseToApplication_DateOnly(row) ==
    [id |-> row.id,
     applicantName |-> row.applicant_name,
     propertyAddress |-> row.property_address,
     creditScore |-> row.credit_score,
     monthlyIncome |-> row.monthly_income,
     requestedAmount |-> row.requested_amount,
     loanTermMonths |-> row.loan_term_months,
     eligible |-> row.eligible # 0,
     reason |-> row.reason,
     crimeGrade |-> row.crime_grade,
     createdAt |-> NewDate([row.created_at EXCEPT !.hours = 0, !.minutes = 0,
                                                  !.seconds = 0, !.milliseconds = 0]),
     updatedAt |-> NewDate([row.updated_at EXCEPT !.hours = 0, !.minutes = 0,
                                                  !.seconds = 0, !.milliseconds = 0])]

\* Boolean(row.eligible), new Date(row.created_at)
mapDatabaseToApplication(row) ==
    [id |-> row.id,
     applicantName |-> row.applicant_name,
     propertyAddress |-> row.property_address,
     creditScore |-> row.credit_score,
     monthlyIncome |-> row.monthly_income,
     requestedAmount |-> row.requested_amount,
     loanTermMonths |-> row.loan_term_months,
     eligible |-> row.eligible # 0,
     reason |-> row.reason,
     crimeGrade |-> row.crime_grade,
     createdAt |-> NewDate(row.created_at),
     updatedAt |-> NewDate(row.updated_at)]

\* findById: the application of the row with the id, or Null
findById(table, id) ==
    IF id \notin DOMAIN table THEN Null ELSE mapDatabaseToApplication(table[id])

-----------------------------------------------------------------------------
(* LoanService and LoanController *)

\* The object processLoanApplication hands to create
LoanData_DefaultGrade(request, eligibilityResult, crimeGrade) ==
    [applicantName |-> request.applicantName,
     propertyAddress |-> request.propertyAddress,
     creditScore |-> request.creditScore,
     monthlyIncome |-> request.monthlyIncome,
     requestedAmount |-> request.requestedAmount,
     loanTermMonths |-> request.loanTermMonths,
     eligible |-> eligibilityResult.eligible,
     reason |-> eligibilityResult.reason,
     crimeGrade |-> DEFAULT_GRADE]

LoanData(request, eligibilityResult, crimeGrade) ==
    [applicantName |-> request.applicantName,
     propertyAddress |-> request.propertyAddress,
     creditScore |-> request.creditScore,
     monthlyIncome |-> request.monthlyIncome,
     requestedAmount |-> request.requestedAmount,
     loanTermMonths |-> request.loanTermMonths,
     eligible |-> eligibilityResult.eligible,
     reason |-> eligibilityResult.reason,
     crimeGrade |-> crimeGrade]

\* Steps 2 and 3 of processLoanApplication up to the INSERT: the evaluation
\* of (request, crimeGrade) and what create is about to write, with the id
\* uuidv4 gave and the instant of create
PendingCreate(request, crimeGrade, id, time) ==
    [loanData |-> LoanData(request, evaluateEligibility(request, crimeGrade), crimeGrade),
     id |-> id,
     now |-> toISOString(time)]
NoPending == [loanData |-> <<>>, id |-> "", now |-> <<>>]

\* validatedData of createLoan: String(x).trim() and Number(x) of a body
\* that passed the validation
ValidatedData(body) ==
    [applicantName |-> trim(body.applicantName.value),
     propertyAddress |-> trim(body.propertyAddress.value),
     creditScore |-> body.creditScore.value,
     monthlyIncome |-> body.monthlyIncome.value,
     requestedAmount |-> body.requestedAmount.value,
     loanTermMonths |-> body.loanTermMonths.value]

BadRequest(errors) ==
    [status |-> 400,
     body |-> ErrorBody("Bad Request", <<"Validation failed: ">> \o join(errors, ", "), 400)]
Created(result) == [status |-> 201, body |-> result]
\* handleError
InternalServerError(message) ==
    [status |-> 500, body |-> ErrorBody("Internal Server Error", message, 500)]
\* The error of the catch block of processLoanApplication for a failed INSERT
FailedToProcess ==
    <<"Failed to process loan application: ",
      "SQLITE_CONSTRAINT: UNIQUE constraint failed: loans.id">>

getLoanResponse_OkOnNull(result) == [status |-> 200, body |-> result]

\* getLoan once getLoanApplication has answered
getLoanResponse(result) ==
    IF result = Null
    THEN [status |-> 404,
          body |-> ErrorBody("Not Found", <<"Loan application not found">>, 404)]
    ELSE [status |-> 200, body |-> result]

\* getCrimeGrade once the request has settled: the grade it returns and the
\* cache it leaves
getCrimeGradeSettled(cache, time, address, response) ==
    LET normalizedAddress == normalizeAddress(address)
        grade == fetchCrimeGradeFromAPI(normalizedAddress, response)
    IN  IF grade # Thrown
        THEN [grade |-> grade,
              gradeCache |-> setCachedGrade(cache, time, normalizedAddress, grade)]
        ELSE [grade |-> getFallbackGrade(address), gradeCache |-> cache]

-----------------------------------------------------------------------------
(* The requests to POST /loan and GET /loan/:id *)

MaxRequests == 2
Requests == 1..MaxRequests

\* A key that is not the configured one
OtherApiKey == <<"d","e","f","a","u","l","t","-","s","e","c","r","e","t","-","k","e","Y">>
\* What the x-api-key header of a request can be: missing, empty, or a key
ProvidedApiKeys == {Undefined, Str(<<>>), Str(DefaultApiKey), Str(OtherApiKey)}

\* Date.now() of the requests: the last millisecond of the third day
StartInstants == {3 * CACHE_TTL - 1}

\* What uuidv4 can give, and the ids GET /loan/:id is asked for
UUIDs == {"uuid-1", "uuid-2"}

JsNull == [type |-> "null", value |-> <<>>]
\* A number field of a body; a number where a string is expected
Number(rational) == [type |-> "number", value |-> rational]
NumberFive == [type |-> "number", value |-> <<"5">>]

Addr_HillsRd == <<" ","1"," ","H","i","l","l","s"," ","R","d"," ">>

\* Bodies that pass the validation
HillsBody ==
    [applicantName |-> Str(<<" ","A","n","n"," ">>), propertyAddress |-> Str(Addr_HillsRd),
     creditScore |-> Number(Num(750)), monthlyIncome |-> Number(Num(10000)),
     requestedAmount |-> Number(Num(150000)), loanTermMonths |-> Number(Num(24))]
\* (the least creditScore and the greatest loanTermMonths the rules admit)
RiskyBody ==
    [applicantName |-> Str(<<"B","o","b">>), propertyAddress |-> Str(Addr_EastPaloAlto),
     creditScore |-> Number(Num(300)), monthlyIncome |-> Number(Half(937)),
     requestedAmount |-> Number(Num(150000)), loanTermMonths |-> Number(Num(480))]
ValidBodies == {HillsBody, RiskyBody}

\* Bodies that violate one rule, several rules, or all of them
InvalidBodies ==
    { [HillsBody EXCEPT !.applicantName = v] : v \in {Undefined, Str(<<>>), NumberFive} }
    \cup { [HillsBody EXCEPT !.propertyAddress = v] : v \in {JsNull, Str(<<>>)} }
    \cup { [HillsBody EXCEPT !.creditScore = v] :
               v \in {Number(Half(599)), Number(Half(1701)), Str(<<"7","0","0">>)} }
    \cup { [HillsBody EXCEPT !.monthlyIncome = v] : v \in {Number(Num(0)), Undefined} }
    \cup { [HillsBody EXCEPT !.requestedAmount = v] : v \in {Number(Num(0 - 1)), JsNull} }
    \cup { [HillsBody EXCEPT !.loanTermMonths = v] :
               v \in {Number(Num(0)), Number(Half(961)), Undefined} }
    \cup { [HillsBody EXCEPT !.creditScore = Number(Num(299)),
                             !.loanTermMonths = Number(Num(481))],
           [applicantName |-> Undefined, propertyAddress |-> Undefined,
            creditScore |-> Undefined, monthlyIncome |-> Undefined,
            requestedAmount |-> Undefined, loanTermMonths |-> Undefined] }
Bodies == ValidBodies \cup InvalidBodies

\* Bodies at the edges of the rules for the strings and for loanTermMonths:
\* half a month, one month, a name and an address of whitespace only
HalfMonthBody == [HillsBody EXCEPT !.loanTermMonths = Number(Half(1))]
OneMonthBody == [HillsBody EXCEPT !.loanTermMonths = Number(Num(1))]
BlankNameBody == [HillsBody EXCEPT !.applicantName = Str(<<" ", " ">>)]
BlankAddressBody == [HillsBody EXCEPT !.propertyAddress = Str(<<" ", "\t">>)]
EmptyNameBody == [HillsBody EXCEPT !.applicantName = Str(<<>>)]
EdgeBodies == {HalfMonthBody, OneMonthBody, BlankNameBody, BlankAddressBody,
               EmptyNameBody}

\* The header and the body of the requests to POST /loan: every body with
\* the default key, and every header with one body
PostInputs ==
    {input \in ProvidedApiKeys \X Bodies :
         input[1] = Str(DefaultApiKey) \/ input[2] = HillsBody}

\* A request: where it stands ("idle", "awaitingGrade" for the request of
\* fetchCrimeGradeFromAPI, "inserting" for db.run of create, "selecting" for
\* db.get of findById, "done"), req.isAuthenticated, the request handed to
\* processLoanApplication, the id asked for, the grade getCrimeGrade returned,
\* what create is about to insert, and the response sent; lookups is
\* history: how many times the request called getCrimeGrade
IdleRequest ==
    [pc |-> "idle", method |-> "none", isAuthenticated |-> FALSE,
     application |-> NoApplication, id |-> "", crimeGrade |-> <<>>,
     pending |-> NoPending, response |-> NoResponse, lookups |-> 0]

InitLoanIdle ==
    /\ loans = EmptyTable
    /\ requests = [i \in Requests |-> IdleRequest]
    /\ validApiKey = AuthMiddleware(Undefined, Undefined)

\* POST /loan: authenticate, then createLoan up to its first pending
\* operation: a request that fails the authentication or the validation is
\* answered; on a cache hit processLoanApplication goes on to create (which
\* takes an id of uuidv4 and the instant), on a miss it awaits the request of
\* fetchCrimeGradeFromAPI
PostLoan(i, providedApiKey, body) ==
    /\ requests[i].pc = "idle"
    /\ \A j \in Requests : j < i => requests[j].pc # "idle"
    /\ LET auth == authenticate(providedApiKey, validApiKey)
           validation == validateLoanApplicationSafe(body)
           request == ValidatedData(body)
           cached == getCachedGrade(gradeCache, now, normalizeAddress(request.propertyAddress))
       IN  IF ~auth.next
           THEN /\ requests' = [requests EXCEPT ![i] =
                       [IdleRequest EXCEPT !.pc = "done", !.method = "POST",
                                           !.response = auth.response]]
                /\ gradeCache' = gradeCache
           ELSE IF ~validation.isValid
           THEN /\ requests' = [requests EXCEPT ![i] =
                       [IdleRequest EXCEPT !.pc = "done", !.method = "POST",
                                           !.isAuthenticated = TRUE,
                                           !.response = BadRequest(validation.errors)]]
                /\ gradeCache' = gradeCache
           ELSE /\ gradeCache' = cached.gradeCache
                /\ IF cached.result # Null
                   THEN \E id \in UUIDs :
                        requests' = [requests EXCEPT ![i] =
                            [IdleRequest EXCEPT !.pc = "inserting", !.method = "POST",
                                                !.isAuthenticated = TRUE,
                                                !.application = request,
                                                !.crimeGrade = cached.result,
                                                !.pending = PendingCreate(request,
                                                                cached.result, id, now),
                                                !.lookups = 1]]
                   ELSE requests' = [requests EXCEPT ![i] =
                            [IdleRequest EXCEPT !.pc = "awaitingGrade", !.method = "POST",
                                                !.isAuthenticated = TRUE,
                                                !.application = request,
                                                !.lookups = 1]]
    /\ UNCHANGED <<loans, validApiKey, now, calls, resolved, ticks,
                   evalVars, classifyVars, pairVars, serviceVars>>

\* The request of fetchCrimeGradeFromAPI settles: getCrimeGrade caches and
\* returns the grade, processLoanApplication evaluates the eligibility and
\* calls create, which takes an id and the instant and runs the INSERT
PostLoanResume(i, response, id) ==
    /\ requests[i].pc = "awaitingGrade"
    /\ LET request == requests[i].application
           settled == getCrimeGradeSettled(gradeCache, now, request.propertyAddress, response)
       IN  /\ gradeCache' = settled.gradeCache
           /\ requests' = [requests EXCEPT ![i].pc = "inserting",
                                           ![i].crimeGrade = settled.grade,
                                           ![i].pending = PendingCreate(request,
                                                              settled.grade, id, now)]
    /\ UNCHANGED <<loans, validApiKey, now, calls, resolved, ticks,
                   evalVars, classifyVars, pairVars, serviceVars>>

\* The INSERT of create completes: the row is written and the application
\* answered with 201, or the INSERT fails and the error is answered with 500
PostLoanInsert(i) ==
    /\ requests[i].pc = "inserting"
    /\ LET pending == requests[i].pending
           inserted == RunInsert(loans, InsertedRow(pending.loanData, pending.id, pending.now))
       IN  IF inserted.rejected
           THEN /\ loans' = inserted.table
                /\ requests' = [requests EXCEPT ![i].pc = "done",
                                                ![i].pending = NoPending,
                                                ![i].response =
                                                    InternalServerError(FailedToProcess)]
           ELSE /\ loans' = inserted.table
                /\ requests' = [requests EXCEPT ![i].pc = "done",
                                                ![i].pending = NoPending,
                                                ![i].response =
                                                    Created(CreatedApplication(
                                                        pending.loanData, pending.id,
                                                        pending.now))]
    /\ UNCHANGED <<validApiKey, resolverVars, evalVars, classifyVars, pairVars, serviceVars>>

\* GET /loan/:id: authenticate, then getLoan up to db.get of findById
GetLoan(i, providedApiKey, id) ==
    /\ requests[i].pc = "idle"
    /\ \A j \in Requests : j < i => requests[j].pc # "idle"
    /\ LET auth == authenticate(providedApiKey, validApiKey)
       IN  IF ~auth.next
           THEN requests' = [requests EXCEPT ![i] =
                    [IdleRequest EXCEPT !.pc = "done", !.method = "GET",
                                        !.response = auth.response]]
           ELSE requests' = [requests EXCEPT ![i] =
                    [IdleRequest EXCEPT !.pc = "selecting", !.method = "GET", !.id = id,
                                        !.isAuthenticated = TRUE]]
    /\ UNCHANGED <<loans, validApiKey, resolverVars, evalVars, classifyVars, pairVars, serviceVars>>

\* db.get of findById completes and getLoan answers
GetLoanResume(i) ==
    /\ requests[i].pc = "selecting"
    /\ requests' = [requests EXCEPT ![i].pc = "done",
                                    ![i].response =
                                        getLoanResponse(findById(loans, requests[i].id))]
    /\ UNCHANGED <<loans, validApiKey, resolverVars, evalVars, classifyVars, pairVars, serviceVars>>

-----------------------------------------------------------------------------
(* AuthMiddleware alone: authenticate on a request of its own, updateApiKey *)

MaxAuthCalls == 3
\* What updateApiKey can be given: a string
NewApiKeys == {<<>>, DefaultApiKey, OtherApiKey}

getValidApiKey == validApiKey

\* An entry of authCalls: the operation, the key it was given (the header of
\* the request, the argument of updateApiKey), whether next was called and the
\* response sent
AuthCall(op, key, next, response) ==
    [op |-> op, key |-> key, next |-> next, response |-> response]

updateApiKey_Ignored(newApiKey) ==
    /\ Len(authCalls) < MaxAuthCalls
    /\ validApiKey' = validApiKey
    /\ authCalls' = Append(authCalls, AuthCall("updateApiKey", Str(newApiKey), FALSE, NoResponse))
    /\ UNCHANGED <<loans, requests, updateCalls, connection,
                   resolverVars, evalVars, classifyVars, pairVars>>

updateApiKey(newApiKey) ==
    /\ Len(authCalls) < MaxAuthCalls
    /\ validApiKey' = newApiKey
    /\ authCalls' = Append(authCalls, AuthCall("updateApiKey", Str(newApiKey), FALSE, NoResponse))
    /\ UNCHANGED <<loans, requests, updateCalls, connection,
                   resolverVars, evalVars, classifyVars, pairVars>>

\* authenticate(req, res, next) on a request of its own, with the header
\* providedApiKey
Authenticate(providedApiKey) ==
    /\ Len(authCalls) < MaxAuthCalls
    /\ LET auth == authenticate(providedApiKey, validApiKey)
       IN  authCalls' = Append(authCalls, AuthCall("authenticate", providedApiKey,
                                                   auth.next, auth.response))
    /\ UNCHANGED <<loans, requests, validApiKey, updateCalls, connection,
                   resolverVars, evalVars, classifyVars, pairVars>>

-----------------------------------------------------------------------------
(* database/connection.ts *)

MaxDatabaseCalls == 3
DatabaseCalls == 1..MaxDatabaseCalls

\* A call of getDatabase or initializeDatabase: the function called, where
\* the call stands ("idle", "opening" for await open(...), "creating" for
\* await db.exec(CREATE TABLE), "returned"), the connection it returned (0
\* for none), and history: whether the loans table existed when it returned
IdleDatabaseCall == [fn |-> "none", pc |-> "idle", result |-> 0, tableAtReturn |-> FALSE]

\* db (0 for null, otherwise the number of the connection), whether the
\* database file has the loans table, whether db.close() is pending, the
\* calls, and history: the connections opened since the last closeDatabase
\* and the connections opened in all
NoConnection ==
    [db |-> 0, hasTable |-> FALSE, closing |-> FALSE,
     calls |-> [c \in DatabaseCalls |-> IdleDatabaseCall],
     opened |-> 0, connections |-> 0]

InitialisingCalls == {c \in DatabaseCalls : connection.calls[c].pc \in {"opening", "creating"}}

\* The calls are made in the order of their numbers, none while db.close()
\* is pending
CanCallDatabase(c) ==
    /\ connection.calls[c].pc = "idle"
    /\ \A b \in DatabaseCalls : b < c => connection.calls[b].pc # "idle"
    /\ ~connection.closing

\* The body of initializeDatabase() up to await open(...), in the call c of
\* fn: db is returned when it is set
initializeDatabaseFrom(c, fn) ==
    IF connection.db # 0
    THEN connection' = [connection EXCEPT !.calls[c] =
                            [fn |-> fn, pc |-> "returned", result |-> connection.db,
                             tableAtReturn |-> connection.hasTable]]
    ELSE connection' = [connection EXCEPT !.calls[c].fn = fn, !.calls[c].pc = "opening"]

initializeDatabase(c) ==
    /\ CanCallDatabase(c)
    /\ initializeDatabaseFrom(c, "initializeDatabase")
    /\ UNCHANGED <<loanVars, authCalls, updateCalls, resolverVars, evalVars, classifyVars, pairVars>>

\* getDatabase(): initializeDatabase() when db is null, db otherwise
getDatabase(c) ==
    /\ CanCallDatabase(c)
    /\ IF connection.db = 0
       THEN initializeDatabaseFrom(c, "getDatabase")
       ELSE connection' = [connection EXCEPT !.calls[c] =
                               [fn |-> "getDatabase", pc |-> "returned",
                                result |-> connection.db,
                                tableAtReturn |-> connection.hasTable]]
    /\ UNCHANGED <<loanVars, authCalls, updateCalls, resolverVars, evalVars, classifyVars, pairVars>>

\* open(...) resolves: db is assigned the new connection and db.exec is called
OpenResolves(c) ==
    /\ connection.calls[c].pc = "opening"
    /\ connection' = [connection EXCEPT !.db = connection.connections + 1,
                                        !.connections = connection.connections + 1,
                                        !.opened = connection.opened + 1,
                                        !.calls[c].pc = "creating"]
    /\ UNCHANGED <<loanVars, authCalls, updateCalls, resolverVars, evalVars, classifyVars, pairVars>>

\* db.exec(CREATE TABLE IF NOT EXISTS loans ...) resolves: the call returns db
ExecResolves(c) ==
    /\ connection.calls[c].pc = "creating"
    /\ connection' = [connection EXCEPT !.hasTable = TRUE,
                                        !.calls[c].pc = "returned",
                                        !.calls[c].result = connection.db,
                                        !.calls[c].tableAtReturn = TRUE]
    /\ UNCHANGED <<loanVars, authCalls, updateCalls, resolverVars, evalVars, classifyVars, pairVars>>

\* closeDatabase() up to await db.close(), called when no initialization is
\* under way (at shutdown, in afterAll)
closeDatabase ==
    /\ ~connection.closing
    /\ InitialisingCalls = {}
    /\ connection.db # 0
    /\ connection' = [connection EXCEPT !.closing = TRUE]
    /\ UNCHANGED <<loanVars, authCalls, updateCalls, resolverVars, evalVars, classifyVars, pairVars>>

\* db.close() resolves: db = null
CloseResolves ==
    /\ connection.closing
    /\ connection' = [connection EXCEPT !.closing = FALSE, !.db = 0, !.opened = 0]
    /\ UNCHANGED <<loanVars, authCalls, updateCalls, resolverVars, evalVars, classifyVars, pairVars>>

-----------------------------------------------------------------------------
(* LoanService.updateLoanApplication and LoanRepository.update *)

MaxUpdates == 2
Updates == 1..MaxUpdates

\* Partial<LoanApplicationRequest>: a field that is absent is undefined
NoUpdates ==
    [applicantName |-> Undefined, propertyAddress |-> Undefined,
     creditScore |-> Undefined, monthlyIncome |-> Undefined,
     requestedAmount |-> Undefined, loanTermMonths |-> Undefined]

\* updateData: the updates and, after a re-evaluation, eligible, reason and
\* crimeGrade
UpdateData(updates, eligibilityResult, crimeGrade) ==
    [updates |-> updates, reEvaluated |-> TRUE,
     eligible |-> eligibilityResult.eligible, reason |-> eligibilityResult.reason,
     crimeGrade |-> crimeGrade]
\* { ...updates }
SpreadOf(updates) ==
    [updates |-> updates, reEvaluated |-> FALSE,
     eligible |-> FALSE, reason |-> <<>>, crimeGrade |-> <<>>]

needsReEvaluation(updates) ==
    \/ updates.creditScore # Undefined
    \/ updates.monthlyIncome # Undefined
    \/ updates.requestedAmount # Undefined
    \/ updates.loanTermMonths # Undefined
    \/ updates.propertyAddress # Undefined

\* a ?? b
Coalesce(a, b) == IF a \in {Undefined, JsNull} THEN b ELSE a.value

mergedData(updates, currentApp) ==
    [applicantName |-> Coalesce(updates.applicantName, currentApp.applicantName),
     creditScore |-> Coalesce(updates.creditScore, currentApp.creditScore),
     monthlyIncome |-> Coalesce(updates.monthlyIncome, currentApp.monthlyIncome),
     requestedAmount |-> Coalesce(updates.requestedAmount, currentApp.requestedAmount),
     loanTermMonths |-> Coalesce(updates.loanTermMonths, currentApp.loanTermMonths),
     propertyAddress |-> Coalesce(updates.propertyAddress, currentApp.propertyAddress)]

\* The re-evaluation once the crime grade is known
ReEvaluated(updates, currentApp, crimeGrade) ==
    UpdateData(updates, evaluateEligibility(mergedData(updates, currentApp), crimeGrade),
               crimeGrade)

\* The row UPDATE loans SET ... leaves: a column is set when its field is
\* not undefined, and updated_at is set
UpdatedRow(row, updateData, isoNow) ==
    LET updates == updateData.updates
        Set(field, old) == IF updates[field] # Undefined THEN updates[field].value ELSE old
    IN  [row EXCEPT !.applicant_name = Set("applicantName", @),
                    !.property_address = Set("propertyAddress", @),
                    !.credit_score = Set("creditScore", @),
                    !.monthly_income = Set("monthlyIncome", @),
                    !.requested_amount = Set("requestedAmount", @),
                    !.loan_term_months = Set("loanTermMonths", @),
                    !.eligible = IF updateData.reEvaluated
                                 THEN (IF updateData.eligible THEN 1 ELSE 0) ELSE @,
                    !.reason = IF updateData.reEvaluated THEN updateData.reason ELSE @,
                    !.crime_grade = IF updateData.reEvaluated THEN updateData.crimeGrade ELSE @,
                    !.updated_at = isoNow]

\* setClause.length === 0
NoSetClause(updateData) ==
    /\ ~updateData.reEvaluated
    /\ \A field \in DOMAIN updateData.updates : updateData.updates[field] = Undefined

RunUpdate_AllRows(table, id, updateData, isoNow) ==
    IF NoSetClause(updateData) THEN table
    ELSE [rowId \in DOMAIN table |-> UpdatedRow(table[rowId], updateData, isoNow)]

\* db.run(UPDATE loans SET ... WHERE id = ?): the table it leaves (no UPDATE
\* is run without a set clause)
RunUpdate(table, id, updateData, isoNow) ==
    IF NoSetClause(updateData) THEN table
    ELSE [rowId \in DOMAIN table |->
              IF rowId = id THEN UpdatedRow(table[rowId], updateData, isoNow)
              ELSE table[rowId]]

\* A call of updateLoanApplication: where it stands ("idle", "reading" for
\* findById of the current application, "awaitingGrade" for the request of
\* fetchCrimeGradeFromAPI, "updating" for db.run of update, "finding" for the
\* findById that ends update, "returned"), its arguments, the application it
\* read, updateData, and what it returned
IdleUpdate ==
    [pc |-> "idle", id |-> "", updates |-> NoUpdates, currentApp |-> Null,
     updateData |-> SpreadOf(NoUpdates), result |-> Null]

\* updateLoanApplication(id, updates) up to its first await
updateLoanApplication(u, id, given) ==
    /\ updateCalls[u].pc = "idle"
    /\ \A v \in Updates : v < u => updateCalls[v].pc # "idle"
    /\ updateCalls' = [updateCalls EXCEPT ![u] =
           [IdleUpdate EXCEPT !.pc = IF needsReEvaluation(given) THEN "reading" ELSE "updating",
                              !.id = id, !.updates = given,
                              !.updateData = SpreadOf(given)]]
    /\ UNCHANGED <<loanVars, authCalls, connection, resolverVars, evalVars, classifyVars, pairVars>>

\* findById answers: null is returned for no application; otherwise the data
\* are merged and, for a new address, getCrimeGrade is called (a cache hit
\* answers at once, a miss awaits the request); the eligibility is evaluated
\* when the grade is there
UpdateRead(u) ==
    /\ updateCalls[u].pc = "reading"
    /\ LET call == updateCalls[u]
           currentApp == findById(loans, call.id)
       IN  IF currentApp = Null
           THEN /\ updateCalls' = [updateCalls EXCEPT ![u].pc = "returned", ![u].result = Null]
                /\ gradeCache' = gradeCache
           ELSE IF IsTruthy(call.updates.propertyAddress)
           THEN LET cached == getCachedGrade(gradeCache, now,
                                  normalizeAddress(call.updates.propertyAddress.value))
                IN  /\ gradeCache' = cached.gradeCache
                    /\ IF cached.result # Null
                       THEN updateCalls' = [updateCalls EXCEPT
                                ![u].pc = "updating",
                                ![u].updateData = ReEvaluated(call.updates, currentApp,
                                                              cached.result)]
                       ELSE updateCalls' = [updateCalls EXCEPT ![u].pc = "awaitingGrade",
                                                       ![u].currentApp = currentApp]
           ELSE /\ updateCalls' = [updateCalls EXCEPT
                       ![u].pc = "updating",
                       ![u].updateData = ReEvaluated(call.updates, currentApp,
                                                     currentApp.crimeGrade)]
                /\ gradeCache' = gradeCache
    /\ UNCHANGED <<loanVars, authCalls, connection, now, calls, resolved, ticks,
                   evalVars, classifyVars, pairVars>>

\* The request of fetchCrimeGradeFromAPI settles: getCrimeGrade caches and
\* returns the grade, and the eligibility is evaluated
UpdateResume(u, response) ==
    /\ updateCalls[u].pc = "awaitingGrade"
    /\ LET call == updateCalls[u]
           settled == getCrimeGradeSettled(gradeCache, now,
                                           call.updates.propertyAddress.value, response)
       IN  /\ gradeCache' = settled.gradeCache
           /\ updateCalls' = [updateCalls EXCEPT
                  ![u].pc = "updating",
                  ![u].currentApp = Null,
                  ![u].updateData = ReEvaluated(call.updates, call.currentApp,
                                                settled.grade)]
    /\ UNCHANGED <<loanVars, authCalls, connection, now, calls, resolved, ticks,
                   evalVars, classifyVars, pairVars>>

\* update(id, updateData): the instant is taken and the UPDATE is run
UpdateRun(u) ==
    /\ updateCalls[u].pc = "updating"
    /\ loans' = RunUpdate(loans, updateCalls[u].id, updateCalls[u].updateData, toISOString(now))
    /\ updateCalls' = [updateCalls EXCEPT ![u].pc = "finding"]
    /\ UNCHANGED <<requests, validApiKey, authCalls, connection, resolverVars,
                   evalVars, classifyVars, pairVars>>

\* The findById that ends update answers, and updateLoanApplication returns
UpdateFind(u) ==
    /\ updateCalls[u].pc = "finding"
    /\ updateCalls' = [updateCalls EXCEPT ![u].pc = "returned",
                                  ![u].result = findById(loans, updateCalls[u].id)]
    /\ UNCHANGED <<loanVars, authCalls, connection, resolverVars, evalVars, classifyVars, pairVars>>

\* The applications stored before the updates: those of HillsBody and
\* RiskyBody, created one second before the updates with the grades their
\* addresses were resolved to (the request having failed), which are cached
CreatedInstant == 3 * CACHE_TTL - 1001
StoredRow(body, id) ==
    LET request == ValidatedData(body)
        grade == simulateCrimeGrade(normalizeAddress(request.propertyAddress))
        pending == PendingCreate(request, grade, id, CreatedInstant)
    IN  InsertedRow(pending.loanData, pending.id, pending.now)
StoredLoans ==
    RunInsert(RunInsert(EmptyTable, StoredRow(HillsBody, "uuid-1")).table,
              StoredRow(RiskyBody, "uuid-2")).table
StoredCache ==
    LET hills == normalizeAddress(trim(Addr_HillsRd))
        paloAlto == normalizeAddress(Addr_EastPaloAlto)
    IN  setCachedGrade(setCachedGrade(EmptyCache, CreatedInstant, hills,
                                      simulateCrimeGrade(hills)),
                       CreatedInstant, paloAlto, simulateCrimeGrade(paloAlto))

\* The ids updateLoanApplication is called with (no row has the id uuid-3)
UpdateIds == {"uuid-1", "uuid-3"}
\* The updates: the name alone, one number alone (a credit score under the
\* minimum, a higher income), the address alone (one that is cached, one that
\* is not), nothing
NameOnly == [NoUpdates EXCEPT !.applicantName = Str(<<"A","n","n","e">>)]
UpdateInputs ==
    {NameOnly,
     [NoUpdates EXCEPT !.creditScore = Number(Num(650))],
     [NoUpdates EXCEPT !.monthlyIncome = Number(Num(12000))],
     [NoUpdates EXCEPT !.propertyAddress = Str(Addr_EastPaloAlto)],
     [NoUpdates EXCEPT !.propertyAddress = Str(Addr_OakSt)],
     NoUpdates}

InitServiceIdle ==
    /\ authCalls = <<>>
    /\ updateCalls = [u \in Updates |-> IdleUpdate]
    /\ connection = NoConnection

-----------------------------------------------------------------------------
(* Specifications *)

Init ==
    /\ InitResolver /\ InitEvalIdle /\ InitClassifyIdle /\ InitPairIdle /\ InitLoanIdle
    /\ InitServiceIdle

Next ==
    \/ \E i \in Calls, address \in Addresses : getCrimeGrade(i, address)
    \/ \E i \in Calls, response \in Responses : getCrimeGradeResume(i, response)
    \/ clearCache
    \/ \E step \in TickSteps : Tick(step)

Spec == Init /\ [][Next]_vars

\* getCrimeGrade calls alone, every request settling at the latest when its
\* timeout fires
NextTimeout ==
    \/ \E i \in Calls, address \in Addresses : getCrimeGrade(i, address)
    \/ \E i \in Calls, response \in Responses : getCrimeGradeResume(i, response)

SpecTimeout ==
    /\ Init
    /\ [][NextTimeout]_vars
    /\ \A i \in Calls : WF_vars(getCrimeGradeResume(i, TimedOut))

\* The evaluator alone, on every input of EligApplications and every grade
InitEval ==
    /\ InitResolver /\ InitClassifyIdle /\ InitPairIdle /\ InitLoanIdle /\ InitServiceIdle
    /\ evalApp \in EligApplications
    /\ evalGrade \in validGrades
    /\ evalResult = NoResult

NextEval == Evaluate

SpecEval == InitEval /\ [][NextEval]_vars

\* The classification alone, on every address of ClassifyAddresses
InitClassify ==
    /\ InitResolver /\ InitEvalIdle /\ InitPairIdle /\ InitLoanIdle /\ InitServiceIdle
    /\ rawAddress \in ClassifyAddresses
    /\ classified = NotClassified

NextClassify == \E response \in Responses : Classify(response)

SpecClassify == InitClassify /\ [][NextClassify]_vars

\* normalizeAddress alone, on every pair of short addresses of which the
\* first begins with a letter
InitPair ==
    /\ InitResolver /\ InitEvalIdle /\ InitClassifyIdle /\ InitLoanIdle /\ InitServiceIdle
    /\ addressPair \in {p \in ShortAddresses \X ShortAddresses :
                            p[1] # <<>> /\ IsWord(p[1][1])}
    /\ keyPair = NotNormalized

NextPair == NormalizePair

SpecPair == InitPair /\ [][NextPair]_vars

\* The two routes, the server having started at one of StartInstants
InitLoan ==
    /\ gradeCache = EmptyCache
    /\ now \in StartInstants
    /\ calls = [i \in Calls |-> ReadyCall]
    /\ resolved = {}
    /\ ticks = 0
    /\ InitEvalIdle /\ InitClassifyIdle /\ InitPairIdle /\ InitLoanIdle /\ InitServiceIdle

NextLoan ==
    \/ \E i \in Requests, input \in PostInputs : PostLoan(i, input[1], input[2])
    \/ \E i \in Requests, response \in Responses, id \in UUIDs : PostLoanResume(i, response, id)
    \/ \E i \in Requests : PostLoanInsert(i)
    \/ \E i \in Requests, providedApiKey \in ProvidedApiKeys, id \in UUIDs :
           GetLoan(i, providedApiKey, id)
    \/ \E i \in Requests : GetLoanResume(i)

SpecLoan == InitLoan /\ [][NextLoan]_vars

\* POST /loan alone, with the configured key and the bodies of EdgeBodies
NextEdge ==
    \/ \E i \in Requests, body \in EdgeBodies : PostLoan(i, Str(DefaultApiKey), body)
    \/ \E i \in Requests, response \in Responses, id \in UUIDs : PostLoanResume(i, response, id)
    \/ \E i \in Requests : PostLoanInsert(i)

SpecEdge == InitLoan /\ [][NextEdge]_vars

\* updateLoanApplication alone, on the table of StoredLoans
InitUpdate ==
    /\ gradeCache = StoredCache
    /\ now \in StartInstants
    /\ calls = [i \in Calls |-> ReadyCall]
    /\ resolved = {}
    /\ ticks = 0
    /\ InitEvalIdle /\ InitClassifyIdle /\ InitPairIdle
    /\ loans = StoredLoans
    /\ requests = [i \in Requests |-> IdleRequest]
    /\ validApiKey = AuthMiddleware(Undefined, Undefined)
    /\ InitServiceIdle

NextUpdate ==
    \/ \E u \in Updates, id \in UpdateIds, given \in UpdateInputs :
           updateLoanApplication(u, id, given)
    \/ \E u \in Updates : UpdateRead(u)
    \/ \E u \in Updates, response \in Responses : UpdateResume(u, response)
    \/ \E u \in Updates : UpdateRun(u)
    \/ \E u \in Updates : UpdateFind(u)

SpecUpdate == InitUpdate /\ [][NextUpdate]_vars

\* The middleware alone: its key is updated and requests are authenticated
NextAuth ==
    \/ \E newApiKey \in NewApiKeys : updateApiKey(newApiKey)
    \/ \E providedApiKey \in ProvidedApiKeys : Authenticate(providedApiKey)

SpecAuth == InitLoan /\ [][NextAuth]_vars

\* The database connection alone, the database file being new
NextDatabase ==
    \/ \E c \in DatabaseCalls : initializeDatabase(c)
    \/ \E c \in DatabaseCalls : getDatabase(c)
    \/ \E c \in DatabaseCalls : OpenResolves(c)
    \/ \E c \in DatabaseCalls : ExecResolves(c)
    \/ closeDatabase
    \/ CloseResolves

SpecDatabase == InitLoan /\ [][NextDatabase]_vars

-----------------------------------------------------------------------------
(* The eligibility evaluator (SpecEval) *)

Evaluated == evalResult # NoResult

\* C1: eligible is the conjunction of the three check booleans of the same
\* result, and each check boolean depends only on its own inputs: another
\* application or grade that agrees on a check's inputs gets the same check.
C1_EligibleIsConjunction ==
    Evaluated =>
        /\ evalResult.eligible = (/\ evalResult.checks.creditScore
                                  /\ evalResult.checks.income
                                  /\ evalResult.checks.crimeGrade)
        /\ \A other \in EligApplications, grade \in validGrades :
             LET r == evaluateEligibility(other, grade)
             IN  /\ other.creditScore = evalApp.creditScore
                        => r.checks.creditScore = evalResult.checks.creditScore
                 /\ (/\ other.monthlyIncome = evalApp.monthlyIncome
                     /\ other.requestedAmount = evalApp.requestedAmount
                     /\ other.loanTermMonths = evalApp.loanTermMonths)
                        => r.checks.income = evalResult.checks.income
                 /\ grade = evalGrade
                        => r.checks.crimeGrade = evalResult.checks.crimeGrade

\* A failing credit check beside a passing income and crime check
C1_Witness ==
    /\ Evaluated
    /\ evalApp.creditScore = Num(699)
    /\ ~evalResult.checks.creditScore
    /\ evalResult.checks.income
    /\ evalResult.checks.crimeGrade
    /\ ~evalResult.eligible

\* C2: the credit check is true exactly for creditScore >= 700, whatever
\* the other fields are.
C2_CreditThreshold ==
    Evaluated =>
        (evalResult.checks.creditScore
            <=> evalApp.creditScore.n >= 700 * evalApp.creditScore.d)

\* creditScore 700 passes although the income check fails
C2_Witness ==
    /\ Evaluated
    /\ evalApp.creditScore = Num(700)
    /\ evalResult.checks.creditScore
    /\ ~evalResult.checks.income

C4_OnlyFDisqualifies ==
    Evaluated =>
        /\ evalGrade = <<"F">> => ~evalResult.checks.crimeGrade
        /\ evalGrade \in {<<"A">>, <<"B">>, <<"C">>, <<"D">>, <<"E">>}
             => /\ evalResult.checks.crimeGrade
                /\ \A grade \in {<<"A">>, <<"B">>, <<"C">>, <<"D">>, <<"E">>} :
                     evaluateEligibility(evalApp, grade) = evalResult

\* Grade E, the grade next to F, passes and the application is eligible
C4_Witness ==
    /\ Evaluated
    /\ evalGrade = <<"E">>
    /\ evalResult.checks.crimeGrade
    /\ evalResult.eligible

\* The reason text of each combination of failed checks
ReasonOfFailed(credit, income, crime) ==
    CASE ~credit /\ income /\ crime -> <<"Credit score too low">>
      [] credit /\ ~income /\ crime -> <<"Monthly income too low">>
      [] credit /\ income /\ ~crime -> <<"Property location has high crime rate">>
      [] ~credit /\ ~income /\ crime ->
            <<"Credit score too low", ", ", "Monthly income too low">>
      [] ~credit /\ income /\ ~crime ->
            <<"Credit score too low", ", ", "Property location has high crime rate">>
      [] credit /\ ~income /\ ~crime ->
            <<"Monthly income too low", ", ", "Property location has high crime rate">>
      [] ~credit /\ ~income /\ ~crime ->
            <<"Credit score too low", ", ", "Monthly income too low", ", ",
              "Property location has high crime rate">>
      [] OTHER -> <<>>

-----------------------------------------------------------------------------
(* The address grade resolver (Spec) *)

Returned(i) == calls[i].pc = "returned"
Quiescent == \A i \in Calls : calls[i].pc # "awaiting"

\* C6: every getCrimeGrade call returns one of the letters A to F and
\* nothing is thrown to its caller, whatever its request settles with; every
\* grade in the cache is one of those six letters.
C6_AlwaysValidGrade ==
    /\ \A i \in Calls : Returned(i) => calls[i].result \in validGrades
    /\ \A key \in DOMAIN gradeCache : gradeCache[key].grade \in validGrades
    /\ \A i \in Calls, response \in Responses :
         calls[i].pc = "awaiting" =>
             fetchCrimeGradeFromAPI(calls[i].normalizedAddress, response) \in validGrades

\* One call got an invalid grade from the lookup (clamped to C), another
\* had its lookup fail
C6_Witness ==
    \E i, j \in Calls :
        /\ Returned(i) /\ calls[i].source = "api" /\ calls[i].result = <<"C">>
        /\ Returned(j) /\ calls[j].source = "simulated"

\* C7: a getCrimeGrade call that finds an entry younger than 24 hours under
\* its normalized address returns that entry's grade in the same step,
\* without sending a request, and leaves the cache unchanged.
C7_FreshHitReturnsCached ==
    [][\A i \in Calls :
         LET key == calls'[i].normalizedAddress
         IN  (/\ calls[i].pc = "ready"
              /\ calls'[i].pc # "ready"
              /\ key \in DOMAIN gradeCache
              /\ now - gradeCache[key].timestamp < CACHE_TTL)
             => /\ calls'[i].pc = "returned"
                /\ calls'[i].source = "cache"
                /\ calls'[i].result = gradeCache[key].grade
                /\ gradeCache' = gradeCache]_vars

\* A call answered from an entry written before the clock advanced
C7_Witness ==
    \E i \in Calls :
        /\ Returned(i)
        /\ calls[i].source = "cache"
        /\ now = CACHE_TTL - 1
        /\ gradeCache[calls[i].normalizedAddress].timestamp = 0

\* C8: when no call is in flight, getCacheSize is the number of distinct
\* normalized addresses resolved since the last clearCache.
C8_CacheSizeCountsResolvedKeys ==
    Quiescent => getCacheSize = Cardinality(resolved)

\* Two calls resolved the same normalized address: one entry
C8_Witness ==
    /\ MaxCalls >= 2
    /\ Returned(1) /\ Returned(2)
    /\ calls[1].normalizedAddress = calls[2].normalizedAddress
    /\ calls[2].source = "cache"
    /\ getCacheSize = 1

-----------------------------------------------------------------------------
(* normalizeAddress (SpecPair) *)

IsPunctuation(c) == ~IsWord(c) /\ ~IsSpace(c)
NotPunctuation(c) == ~IsPunctuation(c)
\* An address with its punctuation removed, in lower case, its whitespace
\* runs collapsed and its ends trimmed: two addresses differ only in letter
\* case, punctuation or repeated, leading or trailing whitespace iff this
\* form of them is the same
PlainForm(address) ==
    trim(replaceWhitespaceRuns(toLowerCase(SelectSeq(address, NotPunctuation))))

\* C9: two addresses that differ only in letter case, punctuation or
\* repeated, leading or trailing whitespace normalize to the same cache key.
C9_EquivalentAddressesSameKey ==
    (keyPair # NotNormalized /\ PlainForm(addressPair[1]) = PlainForm(addressPair[2]))
        => keyPair[1] = keyPair[2]

-----------------------------------------------------------------------------
(* The keyword classification (SpecClassify) *)

HighRiskKeywords == {KW.east_palo_alto, KW.oakland_downtown, KW.tenderloin,
                     KW.industrial, KW.warehouse}
LowRiskKeywords == {KW.sunnyvale, KW.palo_alto, KW.cupertino, KW.hills, KW.park,
                    KW.garden}
MediumRiskKeywords == {KW.san_jose, KW.fremont, KW.mountain_view}
UrbanKeywords == {KW.downtown, KW.central, KW.san_francisco}
ContainsAny(s, keywords) == \E keyword \in keywords : includes(s, keyword)

\* C10: when the lookup fails the first matching rule decides, in the order
\* high-risk -> F, low-risk -> A, medium-risk -> B, urban -> D, otherwise a
\* grade of B to E; an address containing "east palo alto" is graded F, and
\* one containing "palo alto" or "sunnyvale" and no high-risk keyword is
\* graded A.
C10_FirstMatchWins ==
    classified # NotClassified =>
        LET key == classified.key
            grade == classified.grade
            lower == toLowerCase(rawAddress)
        IN  /\ ContainsAny(key, HighRiskKeywords) => grade = <<"F">>
            /\ (~ContainsAny(key, HighRiskKeywords) /\ ContainsAny(key, LowRiskKeywords))
                 => grade = <<"A">>
            /\ (/\ ~ContainsAny(key, HighRiskKeywords \cup LowRiskKeywords)
                /\ ContainsAny(key, MediumRiskKeywords))
                 => grade = <<"B">>
            /\ (/\ ~ContainsAny(key, HighRiskKeywords \cup LowRiskKeywords
                                         \cup MediumRiskKeywords)
                /\ ContainsAny(key, UrbanKeywords))
                 => grade = <<"D">>
            /\ ~ContainsAny(key, HighRiskKeywords \cup LowRiskKeywords
                                     \cup MediumRiskKeywords \cup UrbanKeywords)
                 => grade \in {<<"B">>, <<"C">>, <<"D">>, <<"E">>}
            /\ includes(lower, KW.east_palo_alto) => grade = <<"F">>
            /\ (/\ \/ includes(lower, KW.palo_alto)
                   \/ includes(lower, KW.sunnyvale)
                /\ ~ContainsAny(key, HighRiskKeywords))
                 => grade = <<"A">>

\* "East Palo Alto", which contains "palo alto", is graded F
C10_Witness ==
    /\ rawAddress = Addr_EastPaloAlto
    /\ includes(classified.key, KW.palo_alto)
    /\ classified.grade = <<"F">>

-----------------------------------------------------------------------------
(* Expiry of cache entries (Spec) *)

\* C17: a call that finds under its key an entry aged CACHE_TTL or more
\* (exactly CACHE_TTL included) does not return it: the entry is deleted and
\* the call awaits the request; when that call returns, its key holds the
\* grade it computed, a valid grade, stamped with the instant of the return,
\* so the entry is fresh.
C17_ExpiredEntryIsReplaced ==
    [][\A i \in Calls :
         LET k == calls'[i].normalizedAddress
         IN  /\ ( /\ calls[i].pc = "ready" /\ calls'[i].pc # "ready"
                  /\ k \in DOMAIN gradeCache
                  /\ now - gradeCache[k].timestamp >= CACHE_TTL )
                => /\ calls'[i].pc = "awaiting"
                   /\ calls'[i].found = "expired"
                   /\ k \notin DOMAIN gradeCache'
                   /\ \A other \in DOMAIN gradeCache \ {k} :
                          other \in DOMAIN gradeCache'
                          /\ gradeCache'[other] = gradeCache[other]
             /\ ( /\ calls[i].pc = "awaiting" /\ calls'[i].pc = "returned"
                  /\ calls[i].found = "expired" )
                => /\ calls'[i].source \in {"api", "simulated"}
                   /\ calls'[i].result \in validGrades
                   /\ k \in DOMAIN gradeCache'
                   /\ gradeCache'[k] = [grade |-> calls'[i].result, timestamp |-> now']
                   /\ now' - gradeCache'[k].timestamp < CACHE_TTL
      ]_vars

\* A call found an entry aged exactly CACHE_TTL, replaced it and returned
C17_Witness ==
    \E i \in Calls :
        /\ calls[i].pc = "returned"
        /\ calls[i].found = "expired"
        /\ now = CACHE_TTL
        /\ calls[i].normalizedAddress \in DOMAIN gradeCache
        /\ gradeCache[calls[i].normalizedAddress].timestamp = CACHE_TTL

-----------------------------------------------------------------------------
(* Validation of the grade of the external source (Spec) *)

\* The grade the external source returned, upper-cased if it is one of the
\* six letters, else the fixed fallback grade
ValidatedOrDefault(grade) ==
    IF toUpperCase(grade.value) \in validGrades
    THEN toUpperCase(grade.value) ELSE DEFAULT_GRADE

\* C18: when the request is fulfilled with a grade, the call returns and
\* caches that grade upper-cased if it is one of A-F, and the fallback grade C
\* if it is not; never the invalid value, never a keyword-classified grade.
C18_ExternalGradeValidated ==
    [][\A i \in Calls, response \in Responses :
         ( /\ getCrimeGradeResume(i, response)
           /\ response.status = "fulfilled"
           /\ response.data = "object"
           /\ IsTruthy(response.grade) )
         => /\ calls'[i].result = ValidatedOrDefault(response.grade)
            /\ gradeCache'[calls[i].normalizedAddress].grade
                   = ValidatedOrDefault(response.grade)
      ]_vars

-----------------------------------------------------------------------------
(* The form of the cache keys (SpecPair) *)

\* C19: normalizeAddress is idempotent: normalizing a key again gives the
\* same key, also when punctuation stood between spaces or at the end of the
\* address.
C19_NormalizeIdempotent ==
    keyPair # NotNormalized =>
        \A j \in 1..2 : normalizeAddress(keyPair[j]) = keyPair[j]

\* A key of lowercase letters, digits and single spaces, with no space at
\* either end
IsCanonicalKey(key) ==
    /\ \A j \in 1..Len(key) : key[j] \in LowerSet \cup DigitSet \cup {" "}
    /\ \A j \in 1..(Len(key) - 1) : ~(key[j] = " " /\ key[j + 1] = " ")
    /\ key # <<>> => key[1] # " " /\ key[Len(key)] # " "

\* C20: every key normalizeAddress produces consists of lowercase letters,
\* digits and single spaces only, with no run of spaces and no leading or
\* trailing space.
C20_KeyIsCanonical ==
    keyPair # NotNormalized => \A j \in 1..2 : IsCanonicalKey(keyPair[j])

-----------------------------------------------------------------------------
(* The two routes (SpecLoan) *)

Status(i) == requests[i].response.status
\* The request has just been answered with the status
Answered(i, status) ==
    requests[i].response.status # status /\ requests'[i].response.status = status
\* The six fields of a request, as a record carries them
RequestFields(record) ==
    [applicantName |-> record.applicantName,
     propertyAddress |-> record.propertyAddress,
     creditScore |-> record.creditScore,
     monthlyIncome |-> record.monthlyIncome,
     requestedAmount |-> record.requestedAmount,
     loanTermMonths |-> record.loanTermMonths]

\* C11: processLoanApplication resolves the grade, then evaluates the
\* eligibility of (request, resolved grade), then persists one record; after
\* every step of a request: while
\* the grade is awaited nothing is evaluated or about to be written; the
\* record about to be written and the record returned carry the six request
\* fields, the resolved grade and the evaluator's eligible and reason for that
\* request and grade; the step that answers 201 adds exactly one row.  The
\* applicant 750 / 10000 / 150000 / 24 at an address containing "hills", with
\* the external source unavailable, gets grade A, eligible, "Passed all
\* checks".
C11_ProcessLoanApplication ==
    [][\A i \in Requests :
         requests'[i] # requests[i] =>
         LET r == requests'[i]
             evaluated == evaluateEligibility(r.application, r.crimeGrade)
         IN  /\ r.pc = "awaitingGrade" => r.crimeGrade = <<>> /\ r.pending = NoPending
             /\ r.pc = "inserting"
                => /\ r.crimeGrade \in validGrades
                   /\ RequestFields(r.pending.loanData) = r.application
                   /\ r.pending.loanData.crimeGrade = r.crimeGrade
                   /\ r.pending.loanData.eligible = evaluated.eligible
                   /\ r.pending.loanData.reason = evaluated.reason
             /\ r.response.status = 201
                => /\ RequestFields(r.response.body) = r.application
                   /\ r.response.body.crimeGrade = r.crimeGrade
                   /\ r.response.body.eligible = evaluated.eligible
                   /\ r.response.body.reason = evaluated.reason
             /\ Answered(i, 201)
                => /\ requests[i].pc = "inserting"
                   /\ r.response.body.id \notin DOMAIN loans
                   /\ DOMAIN loans' = DOMAIN loans \cup {r.response.body.id}
             /\ \A response \in Responses, id \in UUIDs :
                    ( /\ requests[i].pc = "awaitingGrade" /\ r.pc = "inserting"
                      /\ requests[i].application = ValidatedData(HillsBody)
                      /\ response.status = "rejected"
                      /\ PostLoanResume(i, response, id) )
                    => /\ r.crimeGrade = <<"A">>
                       /\ r.pending.loanData.eligible
                       /\ r.pending.loanData.reason = <<"Passed all checks">>
      ]_vars

\* The applicant of the example was answered 201 with grade A
C11_Witness ==
    \E i \in Requests :
        /\ Status(i) = 201
        /\ requests[i].application = ValidatedData(HillsBody)
        /\ requests[i].response.body.crimeGrade = <<"A">>
        /\ requests[i].response.body.eligible
        /\ requests[i].response.body.reason = <<"Passed all checks">>

\* C12: the record a submission was answered with stays retrievable by its
\* id, and findById gives it back equal in every field (id, the six request
\* fields, eligible, reason, crimeGrade, createdAt, updatedAt): a GET for
\* that id that reads the table after the submission was answered is
\* answered 200 with that record.
C12_RetrievedEqualsReturned ==
    [][\A i \in Requests :
         requests'[i].response.status = 201
         => LET created == requests'[i].response.body
            IN  /\ findById(loans', created.id) = created
                /\ \A j \in Requests :
                       ( /\ Status(i) = 201
                         /\ requests[j].pc = "selecting" /\ requests'[j].pc = "done"
                         /\ requests[j].id = created.id )
                       => requests'[j].response = [status |-> 200, body |-> created]
      ]_vars

\* A record created at 23:59:59.999 of the third day was retrieved, equal to
\* the one returned
C12_Witness ==
    \E i, j \in Requests :
        /\ Status(i) = 201 /\ requests[j].method = "GET" /\ Status(j) = 200
        /\ requests[j].id = requests[i].response.body.id
        /\ requests[j].response.body = requests[i].response.body
        /\ requests[i].response.body.createdAt = [time |-> 3 * CACHE_TTL - 1]
        /\ requests[i].response.body.updatedAt = [time |-> 3 * CACHE_TTL - 1]

NotFoundBody ==
    [error |-> "Not Found", message |-> <<"Loan application not found">>, statusCode |-> 404]

C14_UniqueIds ==
    [][/\ \A i \in Requests :
            Answered(i, 201)
            => LET id == requests'[i].response.body.id
               IN  /\ id \notin DOMAIN loans
                   /\ DOMAIN loans' = DOMAIN loans \cup {id}
                   /\ \A other \in DOMAIN loans : loans'[other] = loans[other]
       /\ \A i, j \in Requests :
            ( /\ i # j /\ requests'[i].response.status = 201
              /\ requests'[j].response.status = 201 )
            => requests'[i].response.body.id # requests'[j].response.body.id
       /\ Cardinality(DOMAIN loans')
             = Cardinality({i \in Requests : requests'[i].response.status = 201})
      ]_vars

\* Two submissions with equal data were both answered, with different ids
C14_Witness ==
    \E i, j \in Requests :
        /\ i # j /\ Status(i) = 201 /\ Status(j) = 201
        /\ requests[i].application = requests[j].application
        /\ requests[i].response.body.id # requests[j].response.body.id
        /\ Cardinality(DOMAIN loans) = 2

\* What a request that was refused leaves behind: it is over, it never
\* called getCrimeGrade, and the step left the cache and the table alone
Refused(i) ==
    /\ requests'[i].pc = "done"
    /\ requests'[i].lookups = 0
    /\ requests'[i].pending = NoPending
    /\ gradeCache' = gradeCache
    /\ loans' = loans

\* C15: authenticate calls next, and marks the request authenticated, exactly
\* when the x-api-key header equals the configured key; otherwise it answers
\* 401 Unauthorized, next is not called, and the request causes no grade
\* lookup, no change of the cache and no row; a request that is over does
\* nothing more.
C15_Authenticate ==
    [][\A i \in Requests :
         /\ \A providedApiKey \in ProvidedApiKeys :
              ( /\ requests[i].pc = "idle" /\ requests'[i].pc # "idle"
                /\ \/ \E body \in Bodies : PostLoan(i, providedApiKey, body)
                   \/ \E id \in UUIDs : GetLoan(i, providedApiKey, id) )
              => /\ requests'[i].isAuthenticated <=> providedApiKey = Str(validApiKey)
                 /\ requests'[i].response.status # 401 <=> providedApiKey = Str(validApiKey)
                 /\ providedApiKey # Str(validApiKey)
                    => /\ requests'[i].response.body.error = "Unauthorized"
                       /\ requests'[i].response.body.statusCode = 401
                       /\ Refused(i)
         /\ requests[i].pc = "done" => requests'[i] = requests[i]
      ]_vars

\* A request with a wrong key was answered 401 and one with the configured
\* key went on
C15_Witness ==
    \E i, j \in Requests :
        /\ Status(i) = 401
        /\ requests[i].response.body.message = InvalidApiKey
        /\ ~requests[i].isAuthenticated /\ requests[i].lookups = 0
        /\ requests[j].isAuthenticated /\ requests[j].lookups = 1

\* The rules of the request validation
IsString(v) == v.type = "string"
IsNumber(v) == v.type = "number"
MissingOrEmptyOrNotString(v) == ~IsString(v) \/ v.value = <<>>
NotNumberWithin(v, low, lowIncluded, high) ==
    \/ ~IsNumber(v)
    \/ IF lowIncluded THEN v.value.n < low * v.value.d ELSE v.value.n <= low * v.value.d
    \/ v.value.n > high * v.value.d
NotPositiveNumber(v) == ~IsNumber(v) \/ v.value.n <= 0
ViolatedRules(body) ==
    (IF MissingOrEmptyOrNotString(body.applicantName) THEN <<ValidationErrors.applicantName>> ELSE <<>>)
    \o (IF MissingOrEmptyOrNotString(body.propertyAddress) THEN <<ValidationErrors.propertyAddress>> ELSE <<>>)
    \o (IF NotNumberWithin(body.creditScore, 300, TRUE, 850)
        THEN <<ValidationErrors.creditScore>> ELSE <<>>)
    \o (IF NotPositiveNumber(body.monthlyIncome) THEN <<ValidationErrors.monthlyIncome>> ELSE <<>>)
    \o (IF NotPositiveNumber(body.requestedAmount) THEN <<ValidationErrors.requestedAmount>> ELSE <<>>)
    \o (IF NotNumberWithin(body.loanTermMonths, 0, FALSE, 480)
        THEN <<ValidationErrors.loanTermMonths>> ELSE <<>>)

\* C16: an authenticated POST /loan whose body violates a rule is answered
\* 400 Bad Request with a message that lists every violated rule, and causes
\* no grade lookup, no change of the cache and no row; a body that violates
\* no rule is not answered 400.
C16_ValidationRejects ==
    [][\A i \in Requests, body \in Bodies :
         ( /\ requests[i].pc = "idle" /\ requests'[i].method = "POST"
           /\ PostLoan(i, Str(validApiKey), body) )
         => IF ViolatedRules(body) # <<>>
            THEN /\ requests'[i].response =
                        [status |-> 400,
                         body |-> [error |-> "Bad Request",
                                   message |-> <<"Validation failed: ">>
                                               \o join(ViolatedRules(body), ", "),
                                   statusCode |-> 400]]
                 /\ Refused(i)
            ELSE /\ requests'[i].response.status # 400
                 /\ requests'[i].lookups = 1
      ]_vars

\* A body that violates two rules was answered 400 with both messages
C16_Witness ==
    \E i \in Requests :
        /\ Status(i) = 400
        /\ requests[i].response.body.message
              = <<"Validation failed: ", ValidationErrors.creditScore, ", ", ValidationErrors.loanTermMonths>>
        /\ requests[i].lookups = 0

-----------------------------------------------------------------------------
(* The hash fallback (SpecClassify) *)

MatchesNoKeyword(key) ==
    ~ContainsAny(key, HighRiskKeywords \cup LowRiskKeywords
                          \cup MediumRiskKeywords \cup UrbanKeywords)
\* The two low bits of h = h * 31 + charCode, which wrapping to 32 bits keeps
RECURSIVE LowBits(_, _, _)
LowBits(str, i, bits) ==
    IF i > Len(str) THEN bits
    ELSE LowBits(str, i + 1, (bits * 31 + charCodeAt(str[i])) % 4)
\* |h| mod 4 of the 32-bit integer h with the low bits of str
HashIndex(str) ==
    LET bits == LowBits(str, 1, 0)
    IN  IF hashLoop(str, 1, 0) >= 0 THEN bits ELSE (4 - bits) % 4
MinInt32 == -2147483647 - 1

\* C21: when the lookup fails and the normalized address matches no keyword
\* set, the grade is grades[hash mod 4] of [B, C, D, E], hash being the
\* absolute value of the 32-bit wrapping hash h = h * 31 + charCode: the hash
\* stays within 32 bits, the index is in 0..3 also when the hash is -2^31,
\* the grade is never A or F, and it is a function of the normalized address.
C21_HashFallback ==
    (classified # NotClassified /\ MatchesNoKeyword(classified.key)) =>
        LET key == classified.key
            h == hashLoop(key, 1, 0)
            index == Remainder(simpleHash(key), 4)
            grades == << <<"B">>, <<"C">>, <<"D">>, <<"E">> >>
        IN  /\ h >= MinInt32 /\ h <= 2147483647
            /\ index \in 0..3
            /\ index = HashIndex(key)
            /\ classified.grade = grades[index + 1]
            /\ classified.grade \notin {<<"A">>, <<"F">>}

\* An address whose hash is -2^31 has been classified: Math.abs gives 2^31,
\* the index is 0 and the grade B
C21_Witness ==
    /\ classified # NotClassified
    /\ MatchesNoKeyword(classified.key)
    /\ hashLoop(classified.key, 1, 0) = MinInt32
    /\ classified.grade = <<"B">>

-----------------------------------------------------------------------------
(* What the validation lets through (SpecEdge) *)

\* The request was handed to processLoanApplication
InService(i) ==
    \/ requests[i].pc \in {"awaitingGrade", "inserting"}
    \/ requests[i].pc = "done" /\ requests[i].method = "POST" /\ Status(i) \in {201, 500}

\* C22: every application that passed the validation and is evaluated has
\* loanTermMonths >= 1, so validateIncome divides by no value below one.
C22_TermAtLeastOne ==
    /\ \A i \in Requests :
           InService(i) => GreaterOrEqual(requests[i].application.loanTermMonths, Num(1))
    /\ \A id \in DOMAIN loans : GreaterOrEqual(loans[id].loan_term_months, Num(1))

IsBlank(chars) == \A k \in 1..Len(chars) : IsSpace(chars[k])

\* C23: every application that passed the validation is handed to
\* processLoanApplication, and stored, with a non-empty applicantName and a
\* non-empty propertyAddress after trimming.
C23_NamesNotEmpty ==
    /\ \A i \in Requests :
           InService(i) => /\ requests[i].application.applicantName # <<>>
                           /\ requests[i].application.propertyAddress # <<>>
    /\ \A id \in DOMAIN loans : /\ ~IsBlank(loans[id].applicant_name)
                                /\ ~IsBlank(loans[id].property_address)

-----------------------------------------------------------------------------
(* Concurrent getCrimeGrade calls (Spec) *)

\* The entry is whole: a valid grade and the instant of a past Date.now()
WholeEntry(entry) ==
    /\ DOMAIN entry = {"grade", "timestamp"}
    /\ entry.grade \in validGrades
    /\ entry.timestamp \in 0..now

C28_SameGradeWithinWindow ==
    [][\A j \in Calls :
         LET key == calls'[j].normalizedAddress
         IN  (/\ calls[j].pc # "returned"
              /\ calls'[j].pc = "returned"
              /\ key \in DOMAIN gradeCache
              /\ now - gradeCache[key].timestamp < CACHE_TTL)
             => /\ calls'[j].result = gradeCache[key].grade
                /\ gradeCache'[key].grade = gradeCache[key].grade]_vars

-----------------------------------------------------------------------------
(* A stalled lookup (SpecTimeout) *)

\* C26: every getCrimeGrade call eventually returns a valid grade; when its
\* request is abandoned at the timeout the call returns the grade of the
\* keyword and hash classification, a valid grade, and caches it under the
\* normalized address.
C26_StalledLookupReturns ==
    /\ \A i \in Calls :
           calls[i].pc = "awaiting"
               ~> (calls[i].pc = "returned" /\ calls[i].result \in validGrades)
    /\ [][\A i \in Calls :
            (calls[i].pc = "awaiting" /\ getCrimeGradeResume(i, TimedOut))
            => LET key == calls[i].normalizedAddress
                   grade == calls'[i].result
               IN  /\ calls'[i].pc = "returned"
                   /\ grade = simulateCrimeGrade(key)
                   /\ grade \in validGrades
                   /\ key \in DOMAIN gradeCache'
                   /\ gradeCache'[key] = [grade |-> grade, timestamp |-> now]
         ]_vars

\* Both calls missed the cache, their requests failed, and both have
\* returned the grade of the classification, which the cache holds
C26_Witness ==
    /\ \A i \in Calls :
           /\ Returned(i)
           /\ calls[i].source = "simulated"
           /\ gradeCache[calls[i].normalizedAddress].grade = calls[i].result
    /\ \E i \in Calls : calls[i].result = <<"F">>


-----------------------------------------------------------------------------
(* The key of the middleware after updateApiKey (SpecAuth) *)

\* The updateApiKey calls logged before the entry j
UpdatesBefore(j) == {u \in 1..(j - 1) : authCalls[u].op = "updateApiKey"}
\* The argument of the last of them
LastUpdatedKey(j) ==
    authCalls[CHOOSE u \in UpdatesBefore(j) : \A v \in UpdatesBefore(j) : v <= u].key
AuthenticateCallsAfterUpdate ==
    {j \in 1..Len(authCalls) : authCalls[j].op = "authenticate" /\ UpdatesBefore(j) # {}}
Refused401(call) == ~call.next /\ call.response.status = 401

\* C27 as stated: after updateApiKey(k) every later authenticate call accepts
\* exactly the key k (a request carrying k is passed to next, a request
\* carrying anything else, the previously valid key included, is answered
\* 401), and getValidApiKey returns k until the next updateApiKey.
C27_AcceptsExactlyUpdatedKey ==
    /\ \A j \in AuthenticateCallsAfterUpdate :
          IF authCalls[j].key = LastUpdatedKey(j)
          THEN authCalls[j].next /\ authCalls[j].response = NoResponse
          ELSE Refused401(authCalls[j])
    /\ UpdatesBefore(Len(authCalls) + 1) # {}
          => Str(getValidApiKey) = LastUpdatedKey(Len(authCalls) + 1)

\* C27 amended: after updateApiKey(k) with a non-empty k every later
\* authenticate call accepts exactly the key k; after updateApiKey('') every
\* later authenticate call is answered 401, the request carrying '' included;
\* getValidApiKey returns k until the next updateApiKey.
C27_AcceptsExactlyNonEmptyKey ==
    /\ \A j \in AuthenticateCallsAfterUpdate :
          IF authCalls[j].key = LastUpdatedKey(j) /\ LastUpdatedKey(j).value # <<>>
          THEN authCalls[j].next /\ authCalls[j].response = NoResponse
          ELSE Refused401(authCalls[j])
    /\ UpdatesBefore(Len(authCalls) + 1) # {}
          => Str(getValidApiKey) = LastUpdatedKey(Len(authCalls) + 1)

\* The key was updated to another key; a request carrying the new key was
\* passed on and a request carrying the previous key was refused as invalid
C27_Witness ==
    /\ Len(authCalls) = 3
    /\ authCalls[1] = AuthCall("updateApiKey", Str(OtherApiKey), FALSE, NoResponse)
    /\ authCalls[2] = AuthCall("authenticate", Str(OtherApiKey), TRUE, NoResponse)
    /\ authCalls[3] = AuthCall("authenticate", Str(DefaultApiKey), FALSE,
                               UnauthorizedError(InvalidApiKey))
    /\ getValidApiKey = OtherApiKey

-----------------------------------------------------------------------------
(* The database connection under concurrent callers (SpecDatabase) *)

ReturnedDatabaseCalls == {c \in DatabaseCalls : connection.calls[c].pc = "returned"}

\* C29, first half: between two closeDatabase calls at most one connection is
\* opened
AtMostOneConnectionOpened == connection.opened <= 1
\* C29, second half: every connection returned by getDatabase or
\* initializeDatabase had the loans table when it was returned
ReturnedWithTable == \A c \in ReturnedDatabaseCalls : connection.calls[c].tableAtReturn

\* C29: between two closeDatabase calls at most one database connection is
\* opened, and every connection returned by getDatabase or initializeDatabase
\* already has the loans table, under any interleaving of concurrent callers.
C29_OneConnectionWithTable == AtMostOneConnectionOpened /\ ReturnedWithTable

-----------------------------------------------------------------------------
(* The stored outcome under updates (SpecUpdate) *)

\* eligible and reason of a row are what evaluateEligibility gives for the
\* creditScore, monthlyIncome, requestedAmount, loanTermMonths and crimeGrade
\* of the same row
OutcomeIsOfStoredFields(row) ==
    LET stored == mapDatabaseToApplication(row)
        fresh == evaluateEligibility(stored, stored.crimeGrade)
    IN  stored.eligible = fresh.eligible /\ stored.reason = fresh.reason

\* C25: in every reachable state of the loan store, each record's eligible
\* and reason equal the output of evaluateEligibility applied to that record's
\* own stored fields, also when two updateLoanApplication calls on the same
\* record interleave between their read and their write.
C25_StoredOutcomeIsFresh == \A id \in DOMAIN loans : OutcomeIsOfStoredFields(loans[id])

\* An update that carries applicantName and nothing else
IsNameOnly(given) ==
    /\ given.applicantName # Undefined
    /\ \A field \in DOMAIN given \ {"applicantName"} : given[field] = Undefined
NameOnlyCalls ==
    {u \in Updates : updateCalls[u].pc # "idle" /\ IsNameOnly(updateCalls[u].updates)}

\* C30: updateLoanApplication with an update that carries only applicantName
\* changes that record's applicantName and updatedAt and nothing else: the
\* call re-evaluates nothing (it neither reads the current application nor asks
\* for a grade); each of its steps leaves the grade resolver and its cache
\* as they are; its UPDATE sets applicant_name and updated_at of the row with
\* the id and leaves every other column and every other row; it returns the
\* application of that row.
C30_NameOnlyUpdateFrame ==
    /\ [](\A u \in NameOnlyCalls :
              /\ updateCalls[u].pc \in {"updating", "finding", "returned"}
              /\ ~updateCalls[u].updateData.reEvaluated)
    /\ [][\A u \in Updates :
              (updateCalls'[u] # updateCalls[u] /\ IsNameOnly(updateCalls'[u].updates))
              => /\ UNCHANGED resolverVars
                 /\ DOMAIN loans' = DOMAIN loans
                 /\ \A id \in DOMAIN loans :
                        IF updateCalls[u].pc = "updating" /\ id = updateCalls[u].id
                        THEN loans'[id] =
                                 [loans[id] EXCEPT
                                      !.applicant_name = updateCalls[u].updates.applicantName.value,
                                      !.updated_at = toISOString(now)]
                        ELSE loans'[id] = loans[id]
                 /\ updateCalls'[u].pc = "returned"
                        => updateCalls'[u].result = findById(loans, updateCalls[u].id)]_vars

\* The one call made was a name-only update of uuid-1 and has returned: the
\* application it returned has the new name and a later updatedAt, every
\* other column of the row and the row of uuid-2 are as they were stored, and
\* the cache is as it was
C30_Witness ==
    /\ updateCalls[1].pc = "returned" /\ updateCalls[2].pc = "idle"
    /\ updateCalls[1].id = "uuid-1" /\ updateCalls[1].updates = NameOnly
    /\ updateCalls[1].result # Null
    /\ updateCalls[1].result.applicantName = <<"A","n","n","e">>
    /\ updateCalls[1].result.updatedAt.time = updateCalls[1].result.createdAt.time + 1000
    /\ loans["uuid-1"] = [StoredLoans["uuid-1"] EXCEPT
                              !.applicant_name = <<"A","n","n","e">>,
                              !.updated_at = toISOString(now)]
    /\ loans["uuid-2"] = StoredLoans["uuid-2"]
    /\ gradeCache = StoredCache /\ gradeCache # EmptyCache

=============================================================================
